---- MODULE Spec2Model ----
(***************************************************************************)
(* Model of the blog/gallery application: the image service (upload with   *)
(* compensation, delete), the ImageUpload and ImageGallery components, the *)
(* post form with the blog service and its record mappers, and the         *)
(* attribution display of the post views.                                  *)
(***************************************************************************)
EXTENDS Integers, Sequences, FiniteSets, TLC

VARIABLES
    storage,      \* objects in the 'blog-images' bucket (set of storage paths)
    blog_images,  \* rows of table blog_images
    up,           \* the running imageService.uploadImage call
    calls,        \* the running imageService.deleteImage calls, by caller
    iu,           \* state of the ImageUpload component and its parent's error
    gal,          \* state of the ImageGallery component
    blog_posts,   \* rows of table blog_posts
    hook,         \* state of useBlogPosts: blogPosts, loading, error
    form,         \* state of the PostForm component
    reqs,         \* createPost / updatePost calls awaiting the backend
    stats,        \* history: submissions accepted and calls issued
    mp,           \* a BlogFormData value on its way through the record mappers
    view,         \* the page shown: Gallery with its PhotoCard, or BlogPost
    fi,           \* state of the FlickrImageInput component and its last call
    sel,          \* PostForm's image selection: the slot and the open modal
    auth          \* AuthProvider's state, the auth service and what is in flight

imgVars == <<storage, blog_images, up, calls, iu, gal>>

formVars == <<blog_posts, hook, form, reqs, stats>>

mapVars == <<mp>>

viewVars == <<view>>

embedVars == <<fi>>

selVars == <<sel>>

authVars == <<auth>>

nonAuth == <<imgVars, formVars, mapVars, viewVars, embedVars, selVars>>

vars == <<imgVars, formVars, mapVars, viewVars, embedVars, authVars, selVars>>

nonImage == <<formVars, mapVars, viewVars, embedVars, authVars, selVars>>

nonForm == <<imgVars, mapVars, viewVars, embedVars, authVars, selVars>>

nonMap == <<imgVars, formVars, viewVars, embedVars, authVars, selVars>>

nonEmbed == <<imgVars, formVars, mapVars, viewVars, selVars, authVars>>

\* what the pages leave alone, but for the image table and the admin gallery
nonView == <<storage, up, calls, iu, formVars, mapVars, embedVars, authVars, selVars>>

(***************************************************************************)
(* Bounds                                                                  *)
(***************************************************************************)
MaxUploads == 2

(***************************************************************************)
(* Strings the code tests: file names, storage paths and ids are sequences *)
(* of tokens, so that the tests the code makes on them are computed.       *)
(***************************************************************************)
Stamps == {"t" \o ToString(i) : i \in 1..MaxUploads}

RowIds == {"h12_" \o ToString(i) : i \in 1..MaxUploads}

\* an id as blog_images.id DEFAULT gen_random_uuid() produces it
Uuid(n) == <<"h8", "-", "h4", "-", "h4", "-", "h4", "-", n>>

NoPath == <<>>

\* /^[0-9a-f]{8}-[0-9a-f]{4}-[0-9a-f]{4}-[0-9a-f]{4}-[0-9a-f]{12}$/i
LooksLikeUuid_always(pathOrId) == TRUE

LooksLikeUuid(pathOrId) ==
    /\ Len(pathOrId) = 9
    /\ pathOrId[1] = "h8"
    /\ \A i \in {2, 4, 6, 8} : pathOrId[i] = "-"
    /\ \A i \in {3, 5, 7} : pathOrId[i] = "h4"
    /\ pathOrId[9] \in RowIds

ToLowerCase(s) ==
    CASE s = "HEIC" -> "heic"
      [] s = "JPG" -> "jpg"
      [] OTHER -> s

(***************************************************************************)
(* Files handed to the upload component                                    *)
(***************************************************************************)
maxSize == 50 * 1024 * 1024

FileSizes == {maxSize, maxSize + 1}

\* MIME type and extension as the browser reports them: matching ones, a
\* HEIC file without MIME type, and the mismatches
FileKinds ==
    {<<"image/jpeg", "jpg">>, <<"image/heic", "HEIC">>, <<"", "HEIC">>,
     <<"text/plain", "jpg">>, <<"image/jpeg", "txt">>, <<"text/plain", "txt">>}

Files == {[type |-> k[1], ext |-> k[2], size |-> n] : k \in FileKinds, n \in FileSizes}

NoFile == [type |-> "none", ext |-> "none", size |-> 0]

allowedTypes ==
    {"image/jpeg", "image/png", "image/webp", "image/gif", "image/heic", "image/heif"}

hasValidExtension(file) ==
    ToLowerCase(file.ext) \in {"jpg", "jpeg", "png", "webp", "gif", "heic", "heif"}

InvalidType == "Invalid file type. Please upload JPEG, PNG, WebP, GIF, or HEIC images."

TooLarge == "File size too large. Please upload images smaller than 50MB."

\* a validateImageFile without the size check
validateImageFile_noSizeCheck(file) ==
    IF file.type \notin allowedTypes /\ ~hasValidExtension(file)
      THEN [valid |-> FALSE, error |-> InvalidType]
      ELSE [valid |-> TRUE, error |-> ""]

validateImageFile(file) ==
    IF file.type \notin allowedTypes /\ ~hasValidExtension(file)
      THEN [valid |-> FALSE, error |-> InvalidType]
      ELSE IF file.size > maxSize
        THEN [valid |-> FALSE, error |-> TooLarge]
        ELSE [valid |-> TRUE, error |-> ""]

isHeic(file) ==
    \/ file.type = "image/heic"
    \/ file.type = "image/heif"
    \/ ToLowerCase(file.ext) = "heic"
    \/ ToLowerCase(file.ext) = "heif"

\* convertHeicToJpeg: the converted file is a JPEG named *.jpg
convertHeicToJpeg(file) ==
    [type |-> "image/jpeg",
     ext  |-> IF ToLowerCase(file.ext) \in {"heic", "heif"} THEN "jpg" ELSE file.ext,
     size |-> file.size]

\* the folder prop ImageManager passes to ImageUpload
ManagerFolder == "blog-images"

\* filePath = folder ? `${folder}/${fileName}` : fileName,
\* fileName = `${Date.now()}-${random}.${fileExt}`
FilePath(folder, stamp, fileExt) == <<folder, "/", stamp, "-", "rnd", ".", fileExt>>

Photographers == {"", "Ansel"}

DefaultPhotographer == "Kate Goldenring"

\* a || b on strings: the empty string is falsy
OrElse(a, b) == IF a = "" THEN b ELSE a

(***************************************************************************)
(* URLs are token sequences, so that `new URL(url)` and includes() are     *)
(* computed: a scheme, the tokens of the host, the tokens of the path.     *)
(***************************************************************************)
Schemes == {"https://"}

\* the tokens a path starts with
PathStarts == {"/storage/", "/photos/", "/img"}

Includes(s, pat) ==
    \E i \in 0..(Len(s) - Len(pat)) : SubSeq(s, i + 1, i + Len(pat)) = pat

\* new URL(url): throws unless the text is scheme and host; hostname and
\* pathname of the rest
ParseUrl(url) ==
    LET ok == Len(url) >= 2 /\ url[1] \in Schemes /\ url[2] \notin PathStarts
        starts == {i \in 2..Len(url) : url[i] \in PathStarts}
        k == IF starts = {} THEN Len(url) + 1
             ELSE CHOOSE i \in starts : \A j \in starts : i <= j
    IN  [ok |-> ok,
         hostname |-> IF ok THEN SubSeq(url, 2, k - 1) ELSE <<>>,
         pathname |-> IF ok /\ k <= Len(url) THEN SubSeq(url, k, Len(url)) ELSE <<"/">>]

StorageHost == <<"proj", ".", "supabase", ".co">>

\* supabase.storage.from(bucket).getPublicUrl(filePath)
getPublicUrl(filePath) ==
    <<"https://">> \o StorageHost \o <<"/storage/", "v1/object/public/blog-images/">>
        \o filePath

\* a lookup filter that lets every URL through
isSupabaseStorageUrl_any(url) == TRUE

\* hostname.includes('supabase.co') && pathname.includes('/storage/'),
\* false when the URL does not parse
isSupabaseStorageUrl(url) ==
    LET urlObj == ParseUrl(url)
    IN  /\ urlObj.ok
        /\ Includes(urlObj.hostname, <<"supabase", ".co">>)
        /\ Includes(urlObj.pathname, <<"/storage/">>)

\* hostname.includes('flickr.com') || hostname.includes('staticflickr.com'),
\* false when the URL does not parse
isFlickrImageUrl(url) ==
    LET urlObj == ParseUrl(url)
    IN  /\ urlObj.ok
        /\ \/ Includes(urlObj.hostname, <<"flickr.com">>)
           \/ Includes(urlObj.hostname, <<"static", "flickr.com">>)

(***************************************************************************)
(* imageService.deleteImage                                                *)
(***************************************************************************)
Callers == {"gallery", "upload"}

IdleCall == [pc |-> "idle", arg |-> NoPath, storagePath |-> NoPath, err |-> "", log |-> <<>>]

Entry(op, target, ok) == [op |-> op, target |-> target, ok |-> ok]

\* entry of deleteImage(pathOrId): an id goes through the table, anything
\* else is taken to be the storage path
deleteImage(pathOrId) ==
    IF LooksLikeUuid(pathOrId)
      THEN [IdleCall EXCEPT !.pc = "select", !.arg = pathOrId]
      ELSE [IdleCall EXCEPT !.pc = "remove", !.arg = pathOrId, !.storagePath = pathOrId]

RowsWithId(id) == {r \in blog_images : r.id = id}

\* select('storage_path').eq('id', pathOrId).single()
DeleteImage_select(c) ==
    /\ calls[c].pc = "select"
    /\ \E ok \in BOOLEAN :
         LET f == calls[c]
             rows == RowsWithId(f.arg)
             lg == Append(f.log, Entry("blog_images.select", f.arg, ok /\ rows # {}))
         IN  IF ok /\ rows # {}
               THEN \E r \in rows :
                      calls' = [calls EXCEPT ![c] =
                                  [f EXCEPT !.pc = "deleteRecord",
                                            !.storagePath = r.storage_path,
                                            !.log = lg]]
               ELSE calls' = [calls EXCEPT ![c] =
                                [f EXCEPT !.pc = "threw", !.err = "Image not found",
                                          !.log = lg]]
    /\ UNCHANGED <<storage, blog_images, up, iu, gal, nonImage>>

\* a deleteImage that goes on to the storage object although the record
\* delete failed
DeleteImage_deleteRecord_ignoreError(c) ==
    /\ calls[c].pc = "deleteRecord"
    /\ \E ok \in BOOLEAN :
         LET f == calls[c]
             lg == Append(f.log, Entry("blog_images.delete", f.arg, ok))
         IN  /\ calls' = [calls EXCEPT ![c] = [f EXCEPT !.pc = "remove", !.log = lg]]
             /\ blog_images' = IF ok THEN blog_images \ RowsWithId(f.arg) ELSE blog_images
    /\ UNCHANGED <<storage, up, iu, gal, nonImage>>

\* from('blog_images').delete().eq('id', pathOrId)
DeleteImage_deleteRecord(c) ==
    /\ calls[c].pc = "deleteRecord"
    /\ \E ok \in BOOLEAN :
         LET f == calls[c]
             lg == Append(f.log, Entry("blog_images.delete", f.arg, ok))
         IN  IF ok
               THEN /\ calls' = [calls EXCEPT ![c] = [f EXCEPT !.pc = "remove", !.log = lg]]
                    /\ blog_images' = blog_images \ RowsWithId(f.arg)
               ELSE /\ calls' = [calls EXCEPT ![c] =
                                   [f EXCEPT !.pc = "threw",
                                             !.err = "Database deletion failed",
                                             !.log = lg]]
                    /\ UNCHANGED blog_images
    /\ UNCHANGED <<storage, up, iu, gal, nonImage>>

\* storage.from(bucket).remove([storagePath])
DeleteImage_remove(c) ==
    /\ calls[c].pc = "remove"
    /\ \E ok \in BOOLEAN :
         LET f == calls[c]
             lg == Append(f.log, Entry("storage.remove", f.storagePath, ok))
         IN  IF ok
               THEN /\ calls' = [calls EXCEPT ![c] = [f EXCEPT !.pc = "returned", !.log = lg]]
                    /\ storage' = storage \ {f.storagePath}
               ELSE /\ calls' = [calls EXCEPT ![c] =
                                   [f EXCEPT !.pc = "threw",
                                             !.err = "Storage deletion failed",
                                             !.log = lg]]
                    /\ UNCHANGED storage
    /\ UNCHANGED <<blog_images, up, iu, gal, nonImage>>

(***************************************************************************)
(* imageService.uploadImage                                                *)
(***************************************************************************)
IdleUp(seq) ==
    [pc |-> "idle", seq |-> seq, file |-> NoFile, processed |-> NoFile, folder |-> "",
     photographer |-> "", path |-> NoPath, err |-> "", log |-> <<>>]

HeicUnsupported == "HEIC conversion is not supported in this browser."

\* prepareFileForUpload, then the unique file name and the file path
UploadImage_prepare ==
    /\ up.pc = "prepare"
    /\ \E ok \in BOOLEAN :
         IF isHeic(up.file) /\ ~ok
           THEN up' = [up EXCEPT !.pc = "threw", !.err = HeicUnsupported]
           ELSE LET processedFile == IF isHeic(up.file) THEN convertHeicToJpeg(up.file)
                                                          ELSE up.file
                    stamp == "t" \o ToString(up.seq)
                IN  up' = [up EXCEPT !.pc = "upload", !.processed = processedFile,
                                     !.path = FilePath(up.folder, stamp, processedFile.ext)]
    /\ UNCHANGED <<storage, blog_images, calls, iu, gal, nonImage>>

\* a variant in which a failed storage upload does not stop uploadImage
UploadImage_storageUpload_goesOn ==
    /\ up.pc = "upload"
    /\ \E ok \in BOOLEAN :
         /\ up' = [up EXCEPT !.pc = "dimensions",
                             !.log = Append(up.log, Entry("storage.upload", up.path, ok))]
         /\ storage' = IF ok THEN storage \cup {up.path} ELSE storage
    /\ UNCHANGED <<blog_images, calls, iu, gal, nonImage>>

\* storage.upload(filePath, processedFile, {upsert: false}), then getPublicUrl
UploadImage_storageUpload ==
    /\ up.pc = "upload"
    /\ \E ok \in BOOLEAN, hasUrl \in BOOLEAN :
         LET lg == Append(up.log, Entry("storage.upload", up.path, ok))
         IN  IF ~ok
               THEN /\ up' = [up EXCEPT !.pc = "threw", !.err = "Upload failed", !.log = lg]
                    /\ UNCHANGED storage
               ELSE /\ storage' = storage \cup {up.path}
                    /\ up' = IF hasUrl
                               THEN [up EXCEPT !.pc = "dimensions", !.log = lg]
                               ELSE [up EXCEPT !.pc = "threw",
                                               !.err = "Failed to get public URL",
                                               !.log = lg]
    /\ UNCHANGED <<blog_images, calls, iu, gal, nonImage>>

\* getImageDimensions(processedFile): img.onload or img.onerror
UploadImage_getImageDimensions ==
    /\ up.pc = "dimensions"
    /\ \E ok \in BOOLEAN :
         up' = IF ok THEN [up EXCEPT !.pc = "insert"]
                     ELSE [up EXCEPT !.pc = "threw", !.err = "Failed to load image"]
    /\ UNCHANGED <<storage, blog_images, calls, iu, gal, nonImage>>

NewImageRow ==
    [id |-> Uuid("h12_" \o ToString(up.seq)),
     storage_path |-> up.path,
     public_url |-> getPublicUrl(up.path),
     photographer |-> OrElse(up.photographer, DefaultPhotographer)]

\* from('blog_images').insert({...}).select().single(); on an error the
\* uploaded file is cleaned up with deleteImage(filePath)
UploadImage_insert ==
    /\ up.pc = "insert"
    /\ \E ok \in BOOLEAN :
         LET lg == Append(up.log, Entry("blog_images.insert", up.path, ok))
         IN  IF ok
               THEN /\ blog_images' = blog_images \cup {NewImageRow}
                    /\ up' = [up EXCEPT !.pc = "returned", !.log = lg]
                    /\ UNCHANGED calls
               ELSE /\ up' = [up EXCEPT !.pc = "cleanup", !.log = lg]
                    /\ calls' = [calls EXCEPT !["upload"] = deleteImage(up.path)]
                    /\ UNCHANGED blog_images
    /\ UNCHANGED <<storage, iu, gal, nonImage>>

\* `await this.deleteImage(filePath); throw new Error('Metadata save failed')`:
\* a rejection of deleteImage leaves the await before the throw is reached
UploadImage_afterCleanup ==
    /\ up.pc = "cleanup"
    /\ calls["upload"].pc \in {"returned", "threw"}
    /\ up' = [up EXCEPT !.pc = "threw",
                        !.err = IF calls["upload"].pc = "threw"
                                  THEN calls["upload"].err
                                  ELSE "Metadata save failed",
                        !.log = up.log \o calls["upload"].log]
    /\ calls' = [calls EXCEPT !["upload"] = IdleCall]
    /\ UNCHANGED <<storage, blog_images, iu, gal, nonImage>>

(***************************************************************************)
(* ImageUpload component (with the uploadError state of its parent)        *)
(***************************************************************************)
IdleIu(folder) ==
    [folder |-> folder, selectedFile |-> NoFile, showMetadataForm |-> FALSE,
     isUploading |-> FALSE, photographer |-> "", lastPick |-> NoFile,
     uploadError |-> ""]

FormShown == iu.showMetadataForm /\ iu.selectedFile # NoFile

\* handleFiles(files), from the file input or a drop on the drop zone, which
\* is rendered only while the metadata form is not
ImageUpload_handleFiles ==
    /\ ~FormShown
    /\ \E file \in Files :
         LET validation == validateImageFile(file)
         IN  iu' = IF ~validation.valid
                     THEN [iu EXCEPT !.lastPick = file,
                                     !.uploadError = OrElse(validation.error, "Invalid file")]
                     ELSE [iu EXCEPT !.lastPick = file, !.selectedFile = file,
                                     !.showMetadataForm = TRUE]
    /\ UNCHANGED <<storage, blog_images, up, calls, gal, nonImage>>

\* the photographer input of the metadata form
ImageUpload_setPhotographer ==
    /\ FormShown
    /\ ~iu.isUploading
    /\ \E p \in Photographers :
         /\ p # iu.photographer
         /\ iu' = [iu EXCEPT !.photographer = p]
    /\ UNCHANGED <<storage, blog_images, up, calls, gal, nonImage>>

ImageUpload_handleCancel ==
    /\ FormShown
    /\ ~iu.isUploading
    /\ iu' = [iu EXCEPT !.selectedFile = NoFile, !.showMetadataForm = FALSE,
                        !.photographer = "", !.lastPick = NoFile]
    /\ UNCHANGED <<storage, blog_images, up, calls, gal, nonImage>>

\* handleUpload up to `await imageService.uploadImage(selectedFile, folder, ...)`
ImageUpload_handleUpload ==
    /\ FormShown
    /\ ~iu.isUploading
    /\ up.pc = "idle"
    /\ up.seq < MaxUploads
    /\ iu' = [iu EXCEPT !.isUploading = TRUE]
    /\ up' = [IdleUp(up.seq + 1) EXCEPT
                !.pc = "prepare", !.file = iu.selectedFile, !.folder = iu.folder,
                !.photographer = OrElse(iu.photographer, DefaultPhotographer)]
    /\ UNCHANGED <<storage, blog_images, calls, gal, nonImage>>

\* handleUpload after the await: onImageUploaded(result) and the form reset,
\* or onError(message); finally isUploading is cleared
ImageUpload_uploadSettled ==
    /\ up.pc \in {"returned", "threw"}
    /\ iu' = IF up.pc = "returned"
               THEN [iu EXCEPT !.uploadError = "",
                               !.selectedFile = NoFile, !.showMetadataForm = FALSE,
                               !.photographer = "", !.isUploading = FALSE,
                               !.lastPick = NoFile]
               ELSE [iu EXCEPT !.uploadError = up.err, !.isUploading = FALSE]
    /\ up' = IdleUp(up.seq)
    /\ UNCHANGED <<storage, blog_images, calls, gal, nonImage>>

(***************************************************************************)
(* ImageGallery component                                                  *)
(***************************************************************************)
\* loadImages: imageService.getImages() and setImages, or setError
ImageGallery_loadImages ==
    /\ calls["gallery"].pc = "idle"
    /\ \E ok \in BOOLEAN :
         gal' = IF ok
                  THEN [images |-> {r.id : r \in blog_images}, error |-> ""]
                  ELSE [gal EXCEPT !.error = "Failed to fetch images"]
    /\ gal' # gal
    /\ UNCHANGED <<storage, blog_images, up, calls, iu, nonImage>>

\* handleDeleteImage(id) up to `await imageService.deleteImage(id)`; the
\* image cards are rendered only while no error is shown
ImageGallery_handleDeleteImage ==
    /\ gal.error = ""
    /\ calls["gallery"].pc = "idle"
    /\ \E id \in gal.images :
         calls' = [calls EXCEPT !["gallery"] = deleteImage(id)]
    /\ UNCHANGED <<storage, blog_images, up, iu, gal, nonImage>>

\* handleDeleteImage after the await
ImageGallery_deleteSettled ==
    /\ calls["gallery"].pc \in {"returned", "threw"}
    /\ gal' = IF calls["gallery"].pc = "returned"
                THEN [gal EXCEPT !.images = gal.images \ {calls["gallery"].arg}]
                ELSE [gal EXCEPT !.error = calls["gallery"].err]
    /\ calls' = [calls EXCEPT !["gallery"] = IdleCall]
    /\ UNCHANGED <<storage, blog_images, up, iu, nonImage>>

ImageAtRest ==
    /\ storage = {}
    /\ blog_images = {}
    /\ up = IdleUp(0)
    /\ calls = [c \in Callers |-> IdleCall]
    /\ iu = IdleIu(ManagerFolder)
    /\ gal = [images |-> {}, error |-> ""]

MapperAtRest == mp = [pc |-> "none"]

ViewAtRest == view = [page |-> "none"]

\* PostForm's selectingImageFor, showImageGallery, showImageUpload as mounted
IdleSel == [selectingImageFor |-> {}, showImageGallery |-> FALSE, showImageUpload |-> FALSE]

\* FlickrImageInput as mounted: the useState initial values, no call made
IdleFi ==
    [embedCode |-> <<>>, parsedData |-> {}, error |-> "", showPreview |-> FALSE,
     photographerName |-> <<>>, customTitle |-> <<>>, selected |-> {}]

EmbedAtRest == fi = IdleFi

SelAtRest == sel = IdleSel

\* AuthProvider before its effect has run: the useState initial values, no
\* session at the auth service, nothing in flight
IdleAuth ==
    [isAuthenticated |-> FALSE, user |-> {}, loading |-> TRUE, error |-> "",
     session |-> {}, init |-> "unissued", initSession |-> {}, events |-> <<>>,
     op |-> "none", ops |-> 0, failed |-> ""]

AuthAtRest == auth = IdleAuth

(***************************************************************************)
(* Text: strings the code trims or splits are sequences of characters.     *)
(***************************************************************************)
RECURSIVE TrimStart(_)
TrimStart(s) == IF s # <<>> /\ Head(s) = " " THEN TrimStart(Tail(s)) ELSE s

RECURSIVE TrimEnd(_)
TrimEnd(s) ==
    IF s # <<>> /\ s[Len(s)] = " " THEN TrimEnd(SubSeq(s, 1, Len(s) - 1)) ELSE s

\* String.prototype.trim, and trim() of PostgreSQL on blanks
Trim(s) == TrimEnd(TrimStart(s))

Blanks(s) == Cardinality({i \in DOMAIN s : s[i] = " "})

(***************************************************************************)
(* Table blog_posts and its trigger                                        *)
(***************************************************************************)
WordsPerMinute == 200

\* calculate_read_time(content_text): the words are the pieces of the trimmed
\* text between single blanks; array_length of an empty array is NULL, and
\* GREATEST ignores a NULL
calculate_read_time(content_text) ==
    LET t == Trim(content_text)
        word_count == IF t = <<>> THEN 0 ELSE Blanks(t) + 1
        ceil == (word_count + WordsPerMinute - 1) \div WordsPerMinute
        read_minutes == IF ceil > 1 THEN ceil ELSE 1
    IN  <<read_minutes, " min read">>

\* the column default '{}' of image_metadata: a map is a set of entries
NoMetadata == {}

\* the row the store builds from an inserted payload: id, timestamps and
\* the columns the payload leaves out come from the column defaults, and the
\* trigger update_blog_post_metadata sets read_time
InsertedRow(dbData, id, now) ==
    LET col(name, default) == IF name \in DOMAIN dbData THEN dbData[name] ELSE default
    IN  [id |-> col("id", id),
         title |-> dbData.title,
         category |-> col("category", "lifestyle"),
         image_url |-> dbData.image_url,
         images |-> col("images", <<>>),
         excerpt |-> dbData.excerpt,
         content |-> dbData.content,
         read_time |-> calculate_read_time(dbData.content),
         image_metadata |-> col("image_metadata", NoMetadata),
         created_at |-> col("created_at", now),
         updated_at |-> now]

\* the row after update(dbData): the payload's columns replaced, and the
\* trigger sets read_time and updated_at
UpdatedRow(row, dbData, now) ==
    LET merged == [c \in DOMAIN row |-> IF c \in DOMAIN dbData THEN dbData[c] ELSE row[c]]
    IN  [merged EXCEPT !.read_time = calculate_read_time(merged.content),
                       !.updated_at = now]

\* a timestamptz as the client receives it: the calendar date (a day
\* number), 'T', the time
Timestamp(n) == <<n, "T", "00:00:00+00:00">>

(***************************************************************************)
(* blogService: the record mappers                                         *)
(***************************************************************************)
\* a column or property that is null / undefined
Null == <<"NULL">>

\* x || [] on a list
OrEmptyList(x) == IF x = Null THEN <<>> ELSE x

\* date: new Date(created_at).toISOString().split('T')[0]
mapDatabaseToApp(dbPost) ==
    [id |-> dbPost.id,
     title |-> dbPost.title,
     category |-> dbPost.category,
     imageUrl |-> dbPost.image_url,
     images |-> OrEmptyList(dbPost.images),
     excerpt |-> dbPost.excerpt,
     content |-> dbPost.content,
     readTime |-> dbPost.read_time,
     date |-> dbPost.created_at[1]]

mapAppToDatabase(appPost) ==
    [title |-> appPost.title,
     category |-> appPost.category,
     image_url |-> appPost.imageUrl,
     images |-> OrEmptyList(appPost.images),
     excerpt |-> appPost.excerpt,
     content |-> appPost.content]

(***************************************************************************)
(* useBlogPosts, as the PostForm component uses it                         *)
(***************************************************************************)
MaxSubmits == 2

Texts == {<<>>, <<" ">>, <<"a">>}

Categories == {"lifestyle", "hiking"}

\* the post the first migration inserts, and the routes /admin/edit/:id of
\* an existing and of a missing post
SamplePost ==
    [id |-> "p0", title |-> <<"a">>, category |-> "hiking", image_url |-> <<"a">>,
     images |-> <<>>, excerpt |-> <<"a">>, content |-> <<"a">>,
     read_time |-> <<1, " min read">>, image_metadata |-> NoMetadata,
     created_at |-> Timestamp(0), updated_at |-> Timestamp(0)]

EditRoutes == {"p0", "missing"}

RECURSIVE NewestFirst(_)
\* select('*').order('created_at', {ascending: false})
NewestFirst(rows) ==
    IF rows = {} THEN <<>>
    ELSE LET newest == CHOOSE r \in rows :
                         \A q \in rows : q.created_at[1] <= r.created_at[1]
         IN  <<newest>> \o NewestFirst(rows \ {newest})

\* data.map(this.mapDatabaseToApp)
MapRows(data) == [i \in DOMAIN data |-> mapDatabaseToApp(data[i])]

Mounted == form.route # "admin"

isEditing == form.route \notin {"admin", "new"}

FreshForm(route) ==
    [route |-> route,
     formData |-> [title |-> <<>>, category |-> "lifestyle", imageUrl |-> <<>>,
                   images |-> <<>>, excerpt |-> <<>>, content |-> <<>>],
     isSaving |-> FALSE, saveError |-> "", postLoaded |-> FALSE,
     postNotFound |-> FALSE, lastSubmit |-> "none"]

FreshHook == [blogPosts |-> <<>>, loading |-> TRUE, error |-> ""]

\* the route /admin/new or /admin/edit/:id is entered: PostForm mounts, and
\* its useBlogPosts starts loadBlogPosts
PostForm_mount ==
    /\ ~Mounted
    /\ reqs = <<>>
    /\ \E route \in {"new"} \cup EditRoutes : form' = FreshForm(route)
    /\ hook' = FreshHook
    /\ UNCHANGED <<blog_posts, reqs, stats, nonForm>>

\* loadBlogPosts after `await blogService.getAllPosts()`
UseBlogPosts_loadSettled ==
    /\ Mounted
    /\ hook.loading
    /\ \E ok \in BOOLEAN :
         hook' = IF ok
                   THEN [hook EXCEPT !.blogPosts = MapRows(NewestFirst(blog_posts)),
                                     !.loading = FALSE]
                   ELSE [blogPosts |-> <<>>, loading |-> FALSE,
                         error |-> "Failed to fetch blog posts"]
    /\ UNCHANGED <<blog_posts, form, reqs, stats, nonForm>>

\* getBlogPost(id): blogPosts.find(post => post.id === id)
getBlogPost(id) == {hook.blogPosts[i] : i \in {j \in DOMAIN hook.blogPosts :
                                                 hook.blogPosts[j].id = id}}

\* the effect that loads the post to edit, once loading is complete
PostForm_loadPostEffect ==
    /\ Mounted
    /\ isEditing
    /\ ~hook.loading
    /\ ~form.postLoaded
    /\ IF getBlogPost(form.route) # {}
         THEN \E post \in getBlogPost(form.route) :
                form' = [form EXCEPT
                           !.formData = [title |-> post.title, category |-> post.category,
                                         imageUrl |-> post.imageUrl,
                                         images |-> OrEmptyList(post.images),
                                         excerpt |-> post.excerpt,
                                         content |-> post.content],
                           !.postLoaded = TRUE, !.postNotFound = FALSE]
         ELSE form' = [form EXCEPT !.postNotFound = TRUE, !.saveError = "Post not found"]
    /\ form' # form
    /\ UNCHANGED <<blog_posts, hook, reqs, stats, nonForm>>

\* the form is rendered unless the loader or the not-found panel is; an
\* event reaches it once the effect above has run
FormRendered ==
    /\ Mounted
    /\ ~hook.loading
    /\ ~(isEditing /\ form.postNotFound)
    /\ isEditing => form.postLoaded

\* handleChange of a text input, a textarea or the category select
PostForm_handleChange ==
    /\ FormRendered
    /\ \E name \in {"title", "excerpt", "content", "imageUrl", "category"} :
       \E value \in (IF name = "category" THEN Categories ELSE Texts) :
         /\ value # form.formData[name]
         /\ form' = [form EXCEPT !.formData[name] = value, !.saveError = "",
                                 !.lastSubmit = "none"]
    /\ UNCHANGED <<blog_posts, hook, reqs, stats, nonForm>>

\* the Cancel button: navigate('/admin'); taken while no save is in flight
PostForm_cancel ==
    /\ Mounted
    /\ ~form.isSaving
    /\ reqs = <<>>
    /\ form' = FreshForm("admin")
    /\ hook' = FreshHook
    /\ UNCHANGED <<blog_posts, reqs, stats, nonForm>>

\* a required field that fails the check without trimming
FieldMissing_noTrim(value) == value = <<>>

\* !value.trim()
FieldMissing(value) == Trim(value) = <<>>

\* the "Validate required fields" block of handleSubmit
RequiredError(formData) ==
    IF FieldMissing(formData.title) THEN "Title is required"
    ELSE IF FieldMissing(formData.excerpt) THEN "Excerpt is required"
    ELSE IF FieldMissing(formData.content) THEN "Content is required"
    ELSE IF FieldMissing(formData.imageUrl) THEN "Main image URL is required"
    ELSE ""

\* a submit button that is disabled only while the post list loads
SubmitEnabled_loadingOnly == ~hook.loading

\* disabled={isSaving || loading} on the submit button
SubmitEnabled == ~(form.isSaving \/ hook.loading)

\* handleSubmit up to the await: validation, then updateBlogPost(id, formData)
\* or addBlogPost(formData), each clearing the hook's error and calling the
\* service, which maps the form and issues the update or the insert
PostForm_handleSubmit ==
    /\ FormRendered
    /\ SubmitEnabled
    /\ IF RequiredError(form.formData) # ""
         THEN /\ form' = [form EXCEPT !.saveError = RequiredError(form.formData),
                                      !.lastSubmit = "rejected"]
              /\ UNCHANGED <<hook, reqs, stats>>
         ELSE /\ stats.submits < MaxSubmits
              /\ form' = [form EXCEPT !.isSaving = TRUE, !.saveError = "",
                                      !.lastSubmit = "accepted"]
              /\ hook' = [hook EXCEPT !.error = ""]
              /\ reqs' = Append(reqs,
                                [kind |-> IF isEditing THEN "update" ELSE "insert",
                                 id |-> IF isEditing THEN form.route ELSE "",
                                 postData |-> form.formData,
                                 dbData |-> mapAppToDatabase(form.formData),
                                 pc |-> "pending",
                                 result |-> Null])
              /\ stats' = [stats EXCEPT !.submits = @ + 1,
                                        !.inserts = IF isEditing THEN @ ELSE @ + 1,
                                        !.updates = IF isEditing THEN @ + 1 ELSE @]
    /\ UNCHANGED <<blog_posts, nonForm>>

RowsOfPost(id) == {r \in blog_posts : r.id = id}

\* setBlogPosts(prev => [newPost, ...prev]) or
\* setBlogPosts(prev => prev.map(post => post.id === id ? updatedPost : post))
LocalPostsAfter(req, post) ==
    IF req.kind = "insert"
      THEN <<post>> \o hook.blogPosts
      ELSE [i \in DOMAIN hook.blogPosts |->
              IF hook.blogPosts[i].id = req.id THEN post ELSE hook.blogPosts[i]]

\* the backend answers an insert(dbData).select().single() or an
\* update(dbData).eq('id', id).select().single(); createPost / updatePost map
\* the row returned, and addBlogPost / updateBlogPost update the local list
\* or set the error
BlogService_writeSettled ==
    \E i \in DOMAIN reqs :
      /\ reqs[i].pc = "pending"
      /\ \E ok \in BOOLEAN :
           LET req == reqs[i]
               now == Timestamp(stats.clock + 1)
               found == req.kind = "insert" \/ RowsOfPost(req.id) # {}
               row == IF req.kind = "insert"
                        THEN InsertedRow(req.dbData, "p" \o ToString(stats.clock + 1), now)
                        ELSE UpdatedRow(CHOOSE r \in RowsOfPost(req.id) : TRUE,
                                        req.dbData, now)
           IN  IF ok /\ found
                 THEN /\ blog_posts' = (blog_posts \ RowsOfPost(row.id)) \cup {row}
                      /\ reqs' = [reqs EXCEPT ![i].pc = "ok",
                                              ![i].result = mapDatabaseToApp(row)]
                      /\ hook' = IF Mounted
                                   THEN [hook EXCEPT !.blogPosts =
                                           LocalPostsAfter(req, mapDatabaseToApp(row))]
                                   ELSE hook
                      /\ stats' = [stats EXCEPT !.clock = @ + 1]
                 ELSE /\ reqs' = [reqs EXCEPT ![i].pc = "err"]
                      /\ hook' = IF Mounted
                                   THEN [hook EXCEPT !.error =
                                           IF req.kind = "insert"
                                             THEN "Failed to create blog post"
                                             ELSE "Failed to update blog post"]
                                   ELSE hook
                      /\ UNCHANGED <<blog_posts, stats>>
      /\ UNCHANGED <<form, nonForm>>

RemoveAt(s, i) == SubSeq(s, 1, i - 1) \o SubSeq(s, i + 1, Len(s))

\* handleSubmit after the await: navigate('/admin'), or setSaveError; finally
\* setIsSaving(false)
PostForm_saveSettled ==
    \E i \in DOMAIN reqs :
      /\ reqs[i].pc \in {"ok", "err"}
      /\ form' = IF ~Mounted \/ reqs[i].pc = "ok"
                   THEN FreshForm("admin")
                   ELSE [form EXCEPT !.isSaving = FALSE,
                                     !.saveError = IF reqs[i].kind = "insert"
                                                     THEN "Failed to create blog post"
                                                     ELSE "Failed to update blog post"]
      /\ hook' = IF ~Mounted \/ reqs[i].pc = "ok" THEN FreshHook ELSE hook
      /\ reqs' = RemoveAt(reqs, i)
      /\ UNCHANGED <<blog_posts, stats, nonForm>>

PostFormAtRest ==
    /\ hook = FreshHook
    /\ form = FreshForm("admin")
    /\ reqs = <<>>
    /\ stats = [submits |-> 0, inserts |-> 0, updates |-> 0, clock |-> 0]

FormAtRest ==
    /\ blog_posts = {SamplePost}
    /\ PostFormAtRest

InitForm ==
    /\ FormAtRest
    /\ ImageAtRest
    /\ MapperAtRest
    /\ ViewAtRest
    /\ EmbedAtRest
    /\ SelAtRest
    /\ AuthAtRest

NextForm ==
    \/ PostForm_mount
    \/ UseBlogPosts_loadSettled
    \/ PostForm_loadPostEffect
    \/ PostForm_handleChange
    \/ PostForm_cancel
    \/ PostForm_handleSubmit
    \/ BlogService_writeSettled
    \/ PostForm_saveSettled

SpecForm == InitForm /\ [][NextForm]_vars

(***************************************************************************)
(* PostForm: the list of additional images, from the form being mounted    *)
(* to its being left. Indexes are the code's, from 0.                      *)
(***************************************************************************)
MaxImages == 10

PickedUrl == <<"u">>

\* a post of the store with n additional images: the sample posts have up
\* to five, a post saved through the form up to MaxImages
PostWithImages(n) == [SamplePost EXCEPT !.images = [i \in 1..n |-> PickedUrl]]

Indexes == 0..(Len(form.formData.images) - 1)

\* the values selectingImageFor is given: 'main', or the number of the
\* first or of the last slot
Targets ==
    {[kind |-> "main", index |-> 0]}
      \cup {[kind |-> "number", index |-> i] :
              i \in Indexes \cap {0, Len(form.formData.images) - 1}}

\* no modal overlay (fixed inset-0) covers the page
NoModal == ~sel.showImageGallery /\ ~sel.showImageUpload

\* the page takes an event on its image controls: it is rendered and not
\* covered; taken while no save is in flight
AtPage == FormRendered /\ NoModal /\ ~form.isSaving

\* an Add Image button that is never disabled
AddEnabled_always == TRUE

\* disabled={formData.images.length >= 10} on the Add Image button
AddEnabled == ~(Len(form.formData.images) >= MaxImages)

\* images.map((img, i) => i === index ? url : img)
ReplaceAt(images, index, url) ==
    [i \in DOMAIN images |-> IF i - 1 = index THEN url ELSE images[i]]

PostForm_addImage ==
    /\ AtPage
    /\ AddEnabled
    /\ form' = [form EXCEPT !.formData.images = Append(@, <<>>)]
    /\ UNCHANGED <<blog_posts, hook, reqs, stats, nonForm>>

PostForm_updateImage ==
    /\ AtPage
    /\ \E index \in Indexes, url \in {<<>>, PickedUrl} :
         /\ form.formData.images[index + 1] # url
         /\ form' = [form EXCEPT !.formData.images = ReplaceAt(@, index, url)]
    /\ UNCHANGED <<blog_posts, hook, reqs, stats, nonForm>>

\* images.filter((_, i) => i !== index)
PostForm_removeImage ==
    /\ AtPage
    /\ \E index \in Indexes :
         form' = [form EXCEPT !.formData.images = RemoveAt(@, index + 1)]
    /\ UNCHANGED <<blog_posts, hook, reqs, stats, nonForm>>

PostForm_openImageSelector ==
    /\ AtPage
    /\ \E target \in Targets :
         sel' = [sel EXCEPT !.selectingImageFor = {target}, !.showImageGallery = TRUE]
    /\ UNCHANGED <<formVars, imgVars, mapVars, viewVars, embedVars, authVars>>

PostForm_openImageUploader ==
    /\ AtPage
    /\ \E target \in Targets :
         sel' = [sel EXCEPT !.selectingImageFor = {target}, !.showImageUpload = TRUE]
    /\ UNCHANGED <<formVars, imgVars, mapVars, viewVars, embedVars, authVars>>

PostForm_closeModals ==
    /\ Mounted
    /\ ~NoModal
    /\ sel' = IdleSel
    /\ UNCHANGED <<formVars, imgVars, mapVars, viewVars, embedVars, authVars>>

\* the form after handleImageSelected(url) / handleImageUploaded(result)
FormWithImage(url) ==
    IF sel.selectingImageFor = {} THEN form
    ELSE LET target == CHOOSE t \in sel.selectingImageFor : TRUE
         IN  IF target.kind = "main"
               THEN [form EXCEPT !.formData.imageUrl = url]
               ELSE [form EXCEPT !.formData.images = ReplaceAt(@, target.index, url)]

\* the gallery in the modal calls onImageSelect
PostForm_handleImageSelected ==
    /\ Mounted
    /\ sel.showImageGallery
    /\ form' = FormWithImage(PickedUrl)
    /\ sel' = [sel EXCEPT !.selectingImageFor = {}, !.showImageGallery = FALSE]
    /\ UNCHANGED <<blog_posts, hook, reqs, stats, imgVars, mapVars, viewVars, embedVars, authVars>>

\* ImageUpload in the modal calls onImageUploaded with the upload's result
PostForm_handleImageUploaded ==
    /\ Mounted
    /\ sel.showImageUpload
    /\ form' = FormWithImage(PickedUrl)
    /\ sel' = [sel EXCEPT !.selectingImageFor = {}, !.showImageUpload = FALSE]
    /\ UNCHANGED <<blog_posts, hook, reqs, stats, imgVars, mapVars, viewVars, embedVars, authVars>>

\* the submit button of the page pressed
PostForm_submitFromPage ==
    /\ NoModal
    /\ PostForm_handleSubmit

InitFormImages ==
    /\ \E n \in {4, MaxImages} : blog_posts = {PostWithImages(n)}
    /\ \E route \in {"new", "p0"} : form = FreshForm(route)
    /\ hook = FreshHook
    /\ reqs = <<>>
    /\ stats = [submits |-> 0, inserts |-> 0, updates |-> 0, clock |-> 0]
    /\ ImageAtRest
    /\ MapperAtRest
    /\ ViewAtRest
    /\ EmbedAtRest
    /\ SelAtRest
    /\ AuthAtRest

NextFormImages ==
    \/ UseBlogPosts_loadSettled
    \/ PostForm_loadPostEffect
    \/ PostForm_addImage
    \/ PostForm_updateImage
    \/ PostForm_removeImage
    \/ PostForm_openImageSelector
    \/ PostForm_openImageUploader
    \/ PostForm_closeModals
    \/ PostForm_handleImageSelected
    \/ PostForm_handleImageUploaded
    \/ PostForm_submitFromPage
    \/ BlogService_writeSettled
    \/ PostForm_saveSettled

SpecFormImages == InitFormImages /\ [][NextFormImages]_vars

(***************************************************************************)
(* flickrUtils.parseFlickrEmbed. A snippet is the sequence of the elements *)
(* `tempDiv.innerHTML = embedHtml` yields, in document order, each with    *)
(* the attributes the parser reads (Null for an attribute that is not      *)
(* there); attribute values are sequences of characters, where "/photos/", *)
(* "/album-" and the scheme and host stand for their characters.           *)
(***************************************************************************)
FlickrOrigin == "https://www.flickr.com"

\* the characters that are, or start with, a slash
Slashy == {"/", "/photos/", "/album-", FlickrOrigin}

Digits == {"0", "1", "2", "4", "6", "7"}

DigitValue(c) ==
    CASE c = "0" -> 0 [] c = "1" -> 1 [] c = "2" -> 2
      [] c = "4" -> 4 [] c = "6" -> 6 [] c = "7" -> 7

\* the end of the longest run of characters of `class` that starts at i
\* (i - 1 when there is none)
RECURSIVE RunEnd(_, _, _)
RunEnd(text, i, class) ==
    IF i <= Len(text) /\ text[i] \in class THEN RunEnd(text, i + 1, class) ELSE i - 1

NonSlash(text) == {text[i] : i \in DOMAIN text} \ Slashy

\* whether /\/photos\/([^\/]+)\/(\d+)/ matches with "/photos/" at i: the
\* greedy [^\/]+ ends before the next slash, which has to be a "/" that a
\* digit follows
PhotoMatchesAt(href, i) ==
    LET segEnd == RunEnd(href, i + 1, NonSlash(href))
    IN  /\ href[i] = "/photos/"
        /\ segEnd >= i + 1
        /\ segEnd + 2 <= Len(href)
        /\ href[segEnd + 1] = "/"
        /\ href[segEnd + 2] \in Digits

\* a pattern whose second group is (\d), one digit
photoMatch_oneDigit(href) ==
    LET starts == {i \in DOMAIN href : PhotoMatchesAt(href, i)}
    IN  IF starts = {} THEN {}
        ELSE LET i == CHOOSE k \in starts : \A j \in starts : k <= j
                 segEnd == RunEnd(href, i + 1, NonSlash(href))
             IN  {<<SubSeq(href, i + 1, segEnd), <<href[segEnd + 2]>> >>}

\* href.match(/\/photos\/([^\/]+)\/(\d+)/): no match is the empty set, a
\* match is the leftmost one with its two groups
photoMatch(href) ==
    LET starts == {i \in DOMAIN href : PhotoMatchesAt(href, i)}
    IN  IF starts = {} THEN {}
        ELSE LET i == CHOOSE k \in starts : \A j \in starts : k <= j
                 segEnd == RunEnd(href, i + 1, NonSlash(href))
             IN  {<<SubSeq(href, i + 1, segEnd),
                    SubSeq(href, segEnd + 2, RunEnd(href, segEnd + 2, Digits))>>}

\* an album pattern that never matches
albumMatch_never(href) == {}

\* href.match(/\/album-(\d+)/): the leftmost match with its group
albumMatch(href) ==
    LET starts == {i \in DOMAIN href :
                     /\ href[i] = "/album-"
                     /\ i + 1 <= Len(href)
                     /\ href[i + 1] \in Digits}
    IN  IF starts = {} THEN {}
        ELSE LET i == CHOOSE k \in starts : \A j \in starts : k <= j
             IN  {SubSeq(href, i + 1, RunEnd(href, i + 1, Digits))}

NaN == [nan |-> TRUE, value |-> 0]

RECURSIVE DecimalValue(_)
DecimalValue(digits) ==
    IF digits = <<>> THEN 0
    ELSE 10 * DecimalValue(SubSeq(digits, 1, Len(digits) - 1)) + DigitValue(digits[Len(digits)])

\* parseInt(text): leading blanks are skipped, then an optional sign, then
\* the longest run of digits; NaN when there is no digit there
parseInt(text) ==
    LET t == TrimStart(text)
        negative == t # <<>> /\ t[1] = "-"
        from == IF t # <<>> /\ t[1] \in {"-", "+"} THEN 2 ELSE 1
        to == RunEnd(t, from, Digits)
    IN  IF to < from THEN NaN
        ELSE [nan |-> FALSE,
              value |-> IF negative THEN 0 - DecimalValue(SubSeq(t, from, to))
                                    ELSE DecimalValue(SubSeq(t, from, to))]

\* a ?? b in place of a || b: only null gives way
Or_nullish(a, b) == IF a = Null THEN b ELSE a

\* a || b on attribute values: null and '' are falsy
Or(a, b) == IF a = Null \/ a = <<>> THEN b ELSE a

\* tempDiv.querySelector('a[data-flickr-embed="true"]')
QueryLink(embedHtml) ==
    LET found == {i \in DOMAIN embedHtml :
                    embedHtml[i].tag = "a" /\ embedHtml[i].embed = <<"true">>}
    IN  IF found = {} THEN {}
        ELSE {embedHtml[CHOOSE i \in found : \A j \in found : i <= j]}

\* tempDiv.querySelector('img')
QueryImg(embedHtml) ==
    LET found == {i \in DOMAIN embedHtml : embedHtml[i].tag = "img"}
    IN  IF found = {} THEN {}
        ELSE {embedHtml[CHOOSE i \in found : \A j \in found : i <= j]}

\* a parser that takes the account and photo id without the pattern test
parseFlickrEmbed_noPatternTest(embedHtml) ==
    IF QueryLink(embedHtml) = {} \/ QueryImg(embedHtml) = {} THEN {}
    ELSE LET link == CHOOSE e \in QueryLink(embedHtml) : TRUE
             img == CHOOSE e \in QueryImg(embedHtml) : TRUE
             href == Or(link.href, <<>>)
             title == Or(link.title, Or(img.alt, <<>>))
         IN  {[photoId |-> <<>>, userId |-> <<>>, photographer |-> <<>>,
               albumId |-> albumMatch(href), title |-> title,
               imageUrl |-> Or(img.src, <<>>),
               width |-> parseInt(Or(img.width, <<"0">>)),
               height |-> parseInt(Or(img.height, <<"0">>)),
               alt |-> Or(img.alt, title), embedUrl |-> href, flickrPageUrl |-> href]}

\* parseFlickrEmbed(embedHtml): null is the empty set; albumId is the empty
\* set when undefined
parseFlickrEmbed(embedHtml) ==
    IF QueryLink(embedHtml) = {} \/ QueryImg(embedHtml) = {} THEN {}
    ELSE LET link == CHOOSE e \in QueryLink(embedHtml) : TRUE
             img == CHOOSE e \in QueryImg(embedHtml) : TRUE
             href == Or(link.href, <<>>)
             src == Or(img.src, <<>>)
             title == Or(link.title, Or(img.alt, <<>>))
             alt == Or(img.alt, title)
             width == parseInt(Or(img.width, <<"0">>))
             height == parseInt(Or(img.height, <<"0">>))
         IN  IF photoMatch(href) = {} THEN {}
             ELSE LET groups == CHOOSE m \in photoMatch(href) : TRUE
                  IN  {[photoId |-> groups[2], userId |-> groups[1],
                        photographer |-> <<>>,
                        albumId |-> albumMatch(href), title |-> title,
                        imageUrl |-> src, width |-> width, height |-> height,
                        alt |-> alt, embedUrl |-> href, flickrPageUrl |-> href]}

(***************************************************************************)
(* The FlickrImageInput component                                          *)
(***************************************************************************)
Anchor(embed, href, title) ==
    [tag |-> "a", embed |-> embed, href |-> href, title |-> title,
     src |-> Null, alt |-> Null, width |-> Null, height |-> Null]

Img(src, alt, width, height) ==
    [tag |-> "img", embed |-> Null, href |-> Null, title |-> Null,
     src |-> src, alt |-> alt, width |-> width, height |-> height]

\* an element the parser does not look at (a script, a text), or blank text
Other(tag) ==
    [tag |-> tag, embed |-> Null, href |-> Null, title |-> Null,
     src |-> Null, alt |-> Null, width |-> Null, height |-> Null]

PhotoHref == <<FlickrOrigin, "/photos/", "N", "/", "1", "2">>

Hrefs ==
    {Null, <<>>,
     PhotoHref,
     PhotoHref \o <<"/", "in", "/album-", "7", "/">>,
     <<FlickrOrigin, "/photos/", "N", "/">>,
     <<FlickrOrigin, "/photos/", "N", "/", "x">>,
     <<FlickrOrigin, "/photos/", "N", "/", "1", "x", "/album-", "x">>,
     <<FlickrOrigin, "/photos/", "/photos/", "N", "@", "/", "2">>,
     <<FlickrOrigin, "/album-", "7", "2", "/photos/", "N", "/", "1">>,
     <<"/photos/", "N", "/", "1", "/photos/", "x", "/", "2", "/album-", "1", "/album-", "2">>,
     <<FlickrOrigin, "/", "N", "/", "1", "2">>}

ImgSrc == <<"https://", "live", ".", "static", "flickr.com", "/photos/", "1_z.jpg">>

Titles == {Null, <<>>, <<"T">>}

Alts == {Null, <<>>, <<"A">>}

Dimensions == {Null, <<>>, <<"6", "4", "0">>, <<"x">>, <<"6", "4", "x">>, <<" ", "-", "6">>}

\* pasted texts: one attribute group varied at a time around a usual embed,
\* then texts lacking an element, blank text, and elements that come first
Snippets ==
    {<<Anchor(<<"true">>, href, <<"T">>), Img(ImgSrc, <<"A">>, <<"6">>, <<"4">>)>> :
       href \in Hrefs}
      \cup {<<Anchor(<<"true">>, PhotoHref, title), Img(ImgSrc, alt, Null, <<"4">>)>> :
              title \in Titles, alt \in Alts}
      \cup {<<Anchor(<<"true">>, PhotoHref, Null), Img(<<>>, <<"A">>, width, height)>> :
              width \in Dimensions, height \in {Null, <<"4", "7">>, <<"x">>}}
      \cup {<<Anchor(embed, PhotoHref, <<"T">>), Img(ImgSrc, <<"A">>, <<"6">>, <<"4">>)>> :
              embed \in {Null, <<"false">>}}
      \cup {<<Anchor(<<"true">>, href, <<"T">>)>> : href \in {PhotoHref, <<>>}}
      \cup {<<Img(ImgSrc, <<"A">>, <<"6">>, <<"4">>)>>}
      \cup {<<>>, <<Other("space")>>, <<Other("text")>>}
      \cup {<<Anchor(Null, <<"/photos/", "x", "/", "7">>, <<"D">>),
              Anchor(<<"true">>, PhotoHref, Null),
              Img(Null, <<"A">>, <<"6">>, <<"4">>),
              Img(ImgSrc, Null, Null, Null),
              Other("script")>>}

Names == {<<>>, <<" ">>, <<" ", "J", " ">>}

CustomTitles == {<<>>, <<" ">>, <<"C">>}

\* value.trim() of the pasted text is empty
Blank(value) == \A i \in DOMAIN value : value[i].tag = "space"

\* a variant without the setError(null) at the head of the handler
FlickrImageInput_handleEmbedChange_keepsError ==
    \E value \in Snippets :
      /\ value # fi.embedCode
      /\ LET data == parseFlickrEmbed(value)
         IN  fi' = IF Blank(value)
                     THEN [fi EXCEPT !.embedCode = value,
                                     !.parsedData = {}, !.showPreview = FALSE,
                                     !.selected = {}]
                   ELSE IF data # {}
                     THEN [fi EXCEPT !.embedCode = value,
                                     !.parsedData = data,
                                     !.customTitle = (CHOOSE x \in data : TRUE).title,
                                     !.showPreview = TRUE, !.selected = {}]
                   ELSE [fi EXCEPT !.embedCode = value, !.parsedData = {},
                                   !.showPreview = FALSE,
                                   !.error = "Invalid Flickr embed code",
                                   !.selected = {}]
      /\ UNCHANGED nonEmbed

\* handleEmbedChange(value)
FlickrImageInput_handleEmbedChange ==
    \E value \in Snippets :
      /\ value # fi.embedCode
      /\ LET data == parseFlickrEmbed(value)
         IN  fi' = IF Blank(value)
                     THEN [fi EXCEPT !.embedCode = value, !.error = "",
                                     !.parsedData = {}, !.showPreview = FALSE,
                                     !.selected = {}]
                   ELSE IF data # {}
                     THEN [fi EXCEPT !.embedCode = value, !.error = "",
                                     !.parsedData = data,
                                     !.customTitle = (CHOOSE x \in data : TRUE).title,
                                     !.showPreview = TRUE, !.selected = {}]
                   ELSE [fi EXCEPT !.embedCode = value, !.parsedData = {},
                                   !.showPreview = FALSE,
                                   !.error = "Invalid Flickr embed code",
                                   !.selected = {}]
      /\ UNCHANGED nonEmbed

\* the preview, with the two inputs and the button, is rendered
PreviewShown == fi.showPreview /\ fi.parsedData # {}

\* setPhotographerName(e.target.value)
FlickrImageInput_setPhotographerName ==
    /\ PreviewShown
    /\ \E value \in Names :
         /\ value # fi.photographerName
         /\ fi' = [fi EXCEPT !.photographerName = value, !.selected = {}]
    /\ UNCHANGED nonEmbed

\* setCustomTitle(e.target.value)
FlickrImageInput_setCustomTitle ==
    /\ PreviewShown
    /\ \E value \in CustomTitles :
         /\ value # fi.customTitle
         /\ fi' = [fi EXCEPT !.customTitle = value, !.selected = {}]
    /\ UNCHANGED nonEmbed

\* a button that is never disabled
UseEnabled_always == TRUE

\* disabled={!photographerName.trim()} on "Use This Image"
UseEnabled == Trim(fi.photographerName) # <<>>

\* handleUseImage: onImageSelect(parsedData.imageUrl, metadata), then the
\* form is reset; `selected` is the call just made, with the name as entered
FlickrImageInput_handleUseImage ==
    /\ PreviewShown
    /\ UseEnabled
    /\ LET parsedData == CHOOSE x \in fi.parsedData : TRUE
           metadata == [parsedData EXCEPT
                          !.photographer = Or(Trim(fi.photographerName), <<"Flickr User">>),
                          !.title = Or(Trim(fi.customTitle), parsedData.title)]
       IN  fi' = [IdleFi EXCEPT !.selected = {[imageUrl |-> parsedData.imageUrl,
                                               metadata |-> metadata,
                                               entered |-> fi.photographerName,
                                               from |-> fi.embedCode]}]
    /\ UNCHANGED nonEmbed

InitEmbed ==
    /\ EmbedAtRest
    /\ SelAtRest
    /\ AuthAtRest
    /\ ImageAtRest
    /\ FormAtRest
    /\ MapperAtRest
    /\ ViewAtRest

NextEmbed ==
    \/ FlickrImageInput_handleEmbedChange
    \/ FlickrImageInput_setPhotographerName
    \/ FlickrImageInput_setCustomTitle
    \/ FlickrImageInput_handleUseImage

SpecEmbed == InitEmbed /\ [][NextEmbed]_vars

(***************************************************************************)
(* Attribution display: BlogPost (hero, grid, lightbox) and PhotoCard      *)
(***************************************************************************)
UnattributedEmbed == "Flickr User"

\* post.imageMetadata?.[url]: the entries under that URL, none when the post
\* has no imageMetadata
AttributionOf(post, url) ==
    IF "imageMetadata" \in DOMAIN post
      THEN {e \in post.imageMetadata : e.url = url}
      ELSE {}

\* x?.photographer of an optional value (a set of at most one element): ''
\* when there is none
PhotographerOf(optional) ==
    IF optional = {} THEN "" ELSE (CHOOSE m \in optional : TRUE).photographer

\* a Map is a set of entries [key, value]
MapGet(map, key) == {e.value : e \in {x \in map : x.key = key}}

MapSet(map, key, value) == {e \in map : e.key # key} \cup {[key |-> key, value |-> value]}

\* the images memo of BlogPost: the secondary images, then the main image
\* when it is set and not among them
ImagesOf(post) ==
    IF post.imageUrl # <<>> /\ \A i \in DOMAIN post.images : post.images[i] # post.imageUrl
      THEN Append(post.images, post.imageUrl)
      ELSE post.images

\* finalMetadataMap: the gallery map, with the main image's own metadata
finalMetadataMap(post, galleryMetadataMap, mainImageMetadata) ==
    IF post.imageUrl # <<>> /\ mainImageMetadata # {}
      THEN MapSet(galleryMetadataMap, post.imageUrl, CHOOSE m \in mainImageMetadata : TRUE)
      ELSE galleryMetadataMap

\* mainImagePhotographer
mainImagePhotographer(post, mainImageMetadata) ==
    IF isFlickrImageUrl(post.imageUrl)
      THEN OrElse(PhotographerOf(AttributionOf(post, post.imageUrl)), UnattributedEmbed)
    ELSE IF PhotographerOf(mainImageMetadata) # ""
      THEN PhotographerOf(mainImageMetadata)
    ELSE DefaultPhotographer

\* a grid that resolves embeds only
gridPhotographer_embedOnly(post, image, metadataMap) ==
    IF isFlickrImageUrl(image)
      THEN OrElse(PhotographerOf(AttributionOf(post, image)), UnattributedEmbed)
      ELSE DefaultPhotographer

\* the photographer of an image of the "Photo Gallery" grid
gridPhotographer(post, image, metadataMap) ==
    IF isFlickrImageUrl(image)
      THEN OrElse(PhotographerOf(AttributionOf(post, image)), UnattributedEmbed)
    ELSE IF PhotographerOf(MapGet(metadataMap, image)) # ""
      THEN PhotographerOf(MapGet(metadataMap, image))
    ELSE DefaultPhotographer

\* the photographer shown in the lightbox for images[selectedImageIndex]
lightboxPhotographer(post, currentImage, metadataMap) ==
    IF isFlickrImageUrl(currentImage)
      THEN OrElse(PhotographerOf(AttributionOf(post, currentImage)), UnattributedEmbed)
      ELSE OrElse(PhotographerOf(MapGet(metadataMap, currentImage)), DefaultPhotographer)

\* PhotoCard: photographer
cardPhotographer(post, metadata) ==
    IF isFlickrImageUrl(post.imageUrl)
      THEN "Flickr"
      ELSE OrElse(PhotographerOf(metadata), DefaultPhotographer)

(***************************************************************************)
(* The record mappers, applied to a form on its way to the store and back  *)
(***************************************************************************)
UploadedPath == FilePath(ManagerFolder, "t1", "jpg")

UploadedUrl == getPublicUrl(UploadedPath)

FlickrUrl == <<"https://", "live", ".", "static", "flickr.com", "/photos/", "1.jpg">>

OtherUrl == <<"https://", "example", ".", "com", "/img", "/storage/", "a.jpg">>

\* the forms: BlogFormData with and without the optional imageMetadata
FormsWithout ==
    [title : {<<"a">>, <<"b">>},
     category : Categories,
     imageUrl : {UploadedUrl, FlickrUrl, OtherUrl},
     images : {<<>>, <<FlickrUrl>>, <<UploadedUrl, OtherUrl>>},
     excerpt : {<<"a">>},
     content : {<<"a">>, <<"a", " ", "b">>}]

AttributionMaps ==
    {NoMetadata} \cup {{[url |-> FlickrUrl, photographer |-> p]} : p \in {"", "John Doe"}}

WithMetadata(f, m) ==
    [k \in DOMAIN f \cup {"imageMetadata"} |-> IF k = "imageMetadata" THEN m ELSE f[k]]

Forms == FormsWithout \cup {WithMetadata(f, m) : f \in FormsWithout, m \in AttributionMaps}

\* createPost: dbData = this.mapAppToDatabase(postData)
Mapper_toStorage ==
    /\ mp.pc = "input"
    /\ mp' = [pc |-> "mapped", x |-> mp.x, dbData |-> mapAppToDatabase(mp.x)]
    /\ UNCHANGED nonMap

\* createPost: insert(dbData).select().single()
Mapper_insert ==
    /\ mp.pc = "mapped"
    /\ mp' = [pc |-> "stored", x |-> mp.x,
              data |-> InsertedRow(mp.dbData, "p1", Timestamp(1))]
    /\ UNCHANGED nonMap

\* createPost: return this.mapDatabaseToApp(data)
Mapper_toApp ==
    /\ mp.pc = "stored"
    /\ mp' = [pc |-> "read", x |-> mp.x, out |-> mapDatabaseToApp(mp.data)]
    /\ UNCHANGED nonMap

InitMapper ==
    /\ \E x \in Forms : mp = [pc |-> "input", x |-> x]
    /\ ImageAtRest
    /\ FormAtRest
    /\ ViewAtRest
    /\ EmbedAtRest
    /\ SelAtRest
    /\ AuthAtRest

NextMapper ==
    \/ Mapper_toStorage
    \/ Mapper_insert
    \/ Mapper_toApp

SpecMapper == InitMapper /\ [][NextMapper]_vars

(***************************************************************************)
(* blogService.getPost: a stored row read and mapped                       *)
(***************************************************************************)
\* rows of blog_posts as the store may hold them: images may be NULL (the
\* column is nullable), image_metadata is '{}' or a map with entries
StoredRows ==
    [id : {"p0"},
     title : {<<"a">>, <<"b">>},
     category : Categories,
     image_url : {FlickrUrl, UploadedUrl},
     images : {Null, <<>>, <<FlickrUrl>>},
     excerpt : {<<"a">>},
     content : {<<"a">>},
     read_time : {<<1, " min read">>, <<3, " min read">>},
     image_metadata : AttributionMaps,
     created_at : {Timestamp(0)},
     updated_at : {Timestamp(0)}]

\* getPost(id): select('*').eq('id', id).single(); no row is null, an
\* error is thrown
GetPost_select ==
    /\ mp.pc = "select"
    /\ \E id \in {"p0", "missing"}, ok \in BOOLEAN :
         LET rows == RowsOfPost(id)
         IN  mp' = IF ~ok THEN [pc |-> "threw"]
                   ELSE IF rows = {} THEN [pc |-> "returned null"]
                   ELSE [pc |-> "fetched", data |-> CHOOSE r \in rows : TRUE]
    /\ UNCHANGED nonMap

\* getPost: return this.mapDatabaseToApp(data)
GetPost_toApp ==
    /\ mp.pc = "fetched"
    /\ mp' = [pc |-> "returned", data |-> mp.data, out |-> mapDatabaseToApp(mp.data)]
    /\ UNCHANGED nonMap

InitGetPost ==
    /\ mp = [pc |-> "select"]
    /\ \E row \in StoredRows : blog_posts = {row}
    /\ PostFormAtRest
    /\ ImageAtRest
    /\ ViewAtRest
    /\ EmbedAtRest
    /\ SelAtRest
    /\ AuthAtRest

NextGetPost ==
    \/ GetPost_select
    \/ GetPost_toApp

SpecGetPost == InitGetPost /\ [][NextGetPost]_vars

(***************************************************************************)
(* Table blog_posts written to: the trigger update_blog_post_metadata runs *)
(* BEFORE INSERT OR UPDATE on every row.                                   *)
(***************************************************************************)
MaxWrites == 2

\* a body of n one-letter words, each two separated by k copies of `sep`
Body(n, k, sep) ==
    [i \in 1..(IF n = 0 THEN 0 ELSE n + (n - 1) * k) |->
       IF (i - 1) % (k + 1) = 0 THEN "w" ELSE sep]

\* bodies around the 200-word steps: words separated by one blank, by two
\* blanks, by a line break; and bodies with blanks around them
Bodies ==
    {Body(n, 1, " ") : n \in {0, 1, 200, 201, 400, 401}}
      \cup {Body(n, 2, " ") : n \in {101, 200}}
      \cup {Body(n, 1, "\n") : n \in {201, 401}}
      \cup {<<" ">> \o Body(n, 1, " ") \o <<" ", " ">> : n \in {0, 200}}

\* the read_time a client may put in its payload (none, or a label)
ClientLabels == {{}, {<<9, " min read">>}}

Payload(content, label) ==
    LET dbData == [title |-> <<"a">>, category |-> "hiking", image_url |-> <<"a">>,
                   images |-> <<>>, excerpt |-> <<"a">>, content |-> content]
    IN  IF label = {} THEN dbData
        ELSE [c \in DOMAIN dbData \cup {"read_time"} |->
                IF c = "read_time" THEN CHOOSE l \in label : TRUE ELSE dbData[c]]

\* insert(dbData): one more row
Store_insert ==
    /\ mp.writes < MaxWrites
    /\ RowsOfPost("p1") = {}
    /\ \E content \in Bodies, label \in ClientLabels :
         /\ blog_posts' = blog_posts \cup
              {InsertedRow(Payload(content, label), "p1", Timestamp(mp.writes + 1))}
         /\ mp' = [pc |-> "inserted", writes |-> mp.writes + 1, id |-> "p1", sent |-> label]
    /\ UNCHANGED <<imgVars, hook, form, reqs, stats, viewVars, embedVars, authVars, selVars>>

\* update(dbData).eq('id', id)
Store_update ==
    /\ mp.writes < MaxWrites
    /\ \E row \in blog_posts, content \in Bodies, label \in ClientLabels :
         /\ blog_posts' = (blog_posts \ {row}) \cup
              {UpdatedRow(row, Payload(content, label), Timestamp(mp.writes + 1))}
         /\ mp' = [pc |-> "updated", writes |-> mp.writes + 1, id |-> row.id, sent |-> label]
    /\ UNCHANGED <<imgVars, hook, form, reqs, stats, viewVars, embedVars, authVars, selVars>>

InitStore ==
    /\ blog_posts = {SamplePost}
    /\ mp = [pc |-> "store", writes |-> 0]
    /\ PostFormAtRest
    /\ ImageAtRest
    /\ ViewAtRest
    /\ EmbedAtRest
    /\ SelAtRest
    /\ AuthAtRest

NextStore ==
    \/ Store_insert
    \/ Store_update

SpecStore == InitStore /\ [][NextStore]_vars

(***************************************************************************)
(* flickrUtils: getFlickrImageSizes and isFlickrImageUrl applied to a URL. *)
(* "_" and "." are characters of their own in these URLs.                  *)
(***************************************************************************)
RECURSIVE Split(_, _)
\* text.split(sep): the pieces between the occurrences of sep
Split(text, sep) ==
    LET hits == {i \in DOMAIN text : text[i] = sep}
    IN  IF hits = {} THEN <<text>>
        ELSE LET i == CHOOSE k \in hits : \A j \in hits : k <= j
             IN  <<SubSeq(text, 1, i - 1)>> \o Split(SubSeq(text, i + 1, Len(text)), sep)

RECURSIVE Join(_, _)
\* parts.join(sep)
Join(parts, sep) ==
    IF parts = <<>> THEN <<>>
    ELSE IF Len(parts) = 1 THEN parts[1]
    ELSE parts[1] \o <<sep>> \o Join(Tail(parts), sep)

\* the suffix each named size is built with
SizeCodes ==
    {[name |-> "thumbnail", code |-> "t"], [name |-> "small", code |-> "m"],
     [name |-> "medium", code |-> "z"], [name |-> "large", code |-> "b"],
     [name |-> "original", code |-> "6k"], [name |-> "huge", code |-> "h"]}

\* sizes built on what precedes the first "_" instead of the last
getFlickrImageSizes_firstPart(baseUrl) ==
    LET urlParts == Split(baseUrl, "_")
        dotParts == Split(urlParts[Len(urlParts)], ".")
        extension == IF Len(dotParts) >= 2 THEN dotParts[2] ELSE <<"undefined">>
    IN  IF Len(urlParts) < 2 THEN {[name |-> "original", url |-> baseUrl]}
        ELSE {[name |-> sz.name,
               url |-> urlParts[1] \o <<"_", sz.code, ".">> \o extension] :
                sz \in SizeCodes}

\* getFlickrImageSizes(baseUrl): the object returned, as its set of
\* properties; an undefined extension is interpolated as "undefined"
getFlickrImageSizes(baseUrl) ==
    LET urlParts == Split(baseUrl, "_")
        baseWithoutSize == Join(SubSeq(urlParts, 1, Len(urlParts) - 1), "_")
        dotParts == Split(urlParts[Len(urlParts)], ".")
        extension == IF Len(dotParts) >= 2 THEN dotParts[2] ELSE <<"undefined">>
    IN  IF Len(urlParts) < 2 THEN {[name |-> "original", url |-> baseUrl]}
        ELSE {[name |-> sz.name,
               url |-> baseWithoutSize \o <<"_", sz.code, ".">> \o extension] :
                sz \in SizeCodes}

Hosts ==
    {<<"flickr.com">>,
     <<"www", ".", "flickr.com">>,
     <<"live", ".", "static", "flickr.com">>,
     <<"not", "flickr.com">>,
     <<"flickr.com", ".", "evil", ".", "org">>,
     <<"static", "flickr.com", ".", "evil", ".", "org">>,
     <<"example", ".", "com">>}

FileNames ==
    {<<"1", "_", "a", "_", "z", ".", "jpg">>,
     <<"1", "_", "z", ".", "png">>,
     <<"_", "b", ".", "jpg">>,
     <<"a", ".", "jpg">>,
     <<"a">>,
     <<"flickr.com">>,
     <<"1", "_", "a">>,
     <<"1", "_", "z", ".", "tar", ".", "gz">>,
     <<"1", "_", "z", ".", "jpg", "?", "v", "_", "2">>}

\* texts handed to the two functions: URLs of every host and file name,
\* the same without a scheme, and the empty text
Urls ==
    {<<"https://">> \o host \o <<"/img">> \o file : host \in Hosts, file \in FileNames}
      \cup {host \o <<"/img", "1", "_", "z", ".", "jpg">> : host \in Hosts}
      \cup {<<>>, <<"https://">>}

\* const sizes = getFlickrImageSizes(url)
FlickrUtils_getFlickrImageSizes ==
    /\ mp.pc = "url"
    /\ mp.sizes = {}
    /\ mp' = [mp EXCEPT !.sizes = {getFlickrImageSizes(mp.url)}]
    /\ UNCHANGED nonMap

\* const flickr = isFlickrImageUrl(url)
FlickrUtils_isFlickrImageUrl ==
    /\ mp.pc = "url"
    /\ mp.flickr = {}
    /\ mp' = [mp EXCEPT !.flickr = {isFlickrImageUrl(mp.url)}]
    /\ UNCHANGED nonMap

InitFlickrUrl ==
    /\ \E url \in Urls : mp = [pc |-> "url", url |-> url, sizes |-> {}, flickr |-> {}]
    /\ ImageAtRest
    /\ FormAtRest
    /\ ViewAtRest
    /\ EmbedAtRest
    /\ SelAtRest
    /\ AuthAtRest

NextFlickrUrl ==
    \/ FlickrUtils_getFlickrImageSizes
    \/ FlickrUtils_isFlickrImageUrl

SpecFlickrUrl == InitFlickrUrl /\ [][NextFlickrUrl]_vars

(***************************************************************************)
(* AuthProvider and the auth service. A session is the set holding its     *)
(* user's id, or the empty set for null. The service answers getSession    *)
(* with the session it has then, and reports each sign-in and sign-out to  *)
(* the subscriber of onAuthStateChange, in order; answers and events reach *)
(* the provider later.                                                     *)
(***************************************************************************)
MaxAuthOps == 2

\* setSession(session)
SetSession(a, session) ==
    [a EXCEPT !.user = session, !.isAuthenticated = (session # {})]

\* supabase.auth.getSession() is answered by the service
Auth_getSessionAnswered ==
    /\ auth.init = "issued"
    /\ auth' = [auth EXCEPT !.init = "answered", !.initSession = auth.session]
    /\ UNCHANGED nonAuth

\* .then(({ data: { session } }) => { setSession(session); setLoading(false) })
Auth_getSessionThen ==
    /\ auth.init = "answered"
    /\ auth' = [SetSession(auth, auth.initSession) EXCEPT !.loading = FALSE, !.init = "done"]
    /\ UNCHANGED nonAuth

\* the onAuthStateChange callback: setSession(session); setLoading(false)
Auth_stateChange ==
    /\ auth.events # <<>>
    /\ auth' = [SetSession(auth, Head(auth.events)) EXCEPT
                  !.loading = FALSE, !.events = Tail(auth.events)]
    /\ UNCHANGED nonAuth

\* login(credentials) up to the await
Auth_login ==
    /\ auth.op = "none"
    /\ auth.ops < MaxAuthOps
    /\ auth' = [auth EXCEPT !.error = "", !.loading = TRUE, !.op = "login",
                            !.ops = @ + 1, !.failed = ""]
    /\ UNCHANGED nonAuth

\* login after the await: the service signs the user in and reports it, or
\* answers with signInError, or the call throws; finally setLoading(false)
Auth_loginSettled ==
    /\ auth.op = "login"
    /\ \E outcome \in {"signed in", "signInError", "threw"} :
         auth' = IF outcome = "signed in"
                   THEN [auth EXCEPT !.session = {"u1"},
                                     !.events = Append(@, {"u1"}),
                                     !.loading = FALSE, !.op = "none"]
                 ELSE IF outcome = "signInError"
                   THEN [auth EXCEPT !.error = "Invalid login credentials",
                                     !.failed = "login",
                                     !.loading = FALSE, !.op = "none"]
                 ELSE [auth EXCEPT !.error = "Login failed", !.failed = "login",
                                   !.loading = FALSE, !.op = "none"]
    /\ UNCHANGED nonAuth

\* logout() up to the await
Auth_logout ==
    /\ auth.op = "none"
    /\ auth.ops < MaxAuthOps
    /\ auth' = [auth EXCEPT !.error = "", !.op = "logout", !.ops = @ + 1, !.failed = ""]
    /\ UNCHANGED nonAuth

\* logout after the await: the service signs out and reports it; or signOut
\* answers with an error, which is not looked at, or throws, which is logged
Auth_logoutSettled ==
    /\ auth.op = "logout"
    /\ \E outcome \in {"signed out", "error", "threw"} :
         auth' = IF outcome = "signed out"
                   THEN [auth EXCEPT !.session = {}, !.events = Append(@, {}),
                                     !.op = "none"]
                   ELSE [auth EXCEPT !.failed = "logout", !.op = "none"]
    /\ UNCHANGED nonAuth

\* the provider mounted: its effect has issued getSession and subscribed;
\* the service may hold a persisted session
InitAuth ==
    /\ \E session \in {{}, {"u1"}} :
         auth = [IdleAuth EXCEPT !.session = session, !.init = "issued"]
    /\ ImageAtRest
    /\ FormAtRest
    /\ MapperAtRest
    /\ ViewAtRest
    /\ EmbedAtRest
    /\ SelAtRest

NextAuth ==
    \/ Auth_getSessionAnswered
    \/ Auth_getSessionThen
    \/ Auth_stateChange
    \/ Auth_login
    \/ Auth_loginSettled
    \/ Auth_logout
    \/ Auth_logoutSettled

SpecAuth == InitAuth /\ [][NextAuth]_vars

(***************************************************************************)
(* useBlogPosts as the PostList component uses it: loadBlogPosts on mount,  *)
(* refreshPosts, deleteBlogPost. A request is first answered by the backend *)
(* and its answer is delivered to the hook later; the answers of different  *)
(* requests arrive in any order.                                            *)
(***************************************************************************)
MaxCalls == 4

SecondPost == [SamplePost EXCEPT !.id = "p1", !.created_at = Timestamp(1)]

Call(kind, id) == [kind |-> kind, id |-> id, pc |-> "pending", settled |-> FALSE,
                   result |-> <<>>]

InFlight(kind) == \E i \in DOMAIN reqs : reqs[i].kind = kind /\ ~reqs[i].settled

\* refreshPosts, by the Refresh button (disabled while loading): loadBlogPosts
\* up to `await blogService.getAllPosts()`
PostList_refreshPosts ==
    /\ ~hook.loading
    /\ Len(reqs) < MaxCalls
    /\ hook' = [hook EXCEPT !.loading = TRUE, !.error = ""]
    /\ reqs' = Append(reqs, Call("select", ""))
    /\ UNCHANGED <<blog_posts, form, stats, nonForm>>

\* handleDelete(id), by the Delete button of the confirmation (the list is
\* rendered only while not loading; the button is disabled while deleting):
\* deleteBlogPost up to `await blogService.deletePost(id)`
PostList_handleDelete ==
    /\ ~hook.loading
    /\ ~InFlight("delete")
    /\ Len(reqs) < MaxCalls
    /\ \E i \in DOMAIN hook.blogPosts :
         reqs' = Append(reqs, Call("delete", hook.blogPosts[i].id))
    /\ hook' = [hook EXCEPT !.error = ""]
    /\ UNCHANGED <<blog_posts, form, stats, nonForm>>

\* the backend answers getAllPosts: select('*').order('created_at'), mapped
BlogService_getAllPosts ==
    \E i \in DOMAIN reqs :
      /\ reqs[i].kind = "select" /\ reqs[i].pc = "pending"
      /\ \E ok \in BOOLEAN :
           reqs' = IF ok
                     THEN [reqs EXCEPT ![i].pc = "ok",
                                       ![i].result = MapRows(NewestFirst(blog_posts))]
                     ELSE [reqs EXCEPT ![i].pc = "err"]
      /\ UNCHANGED <<blog_posts, hook, form, stats, nonForm>>

\* the backend answers deletePost: delete().eq('id', id)
BlogService_deletePost ==
    \E i \in DOMAIN reqs :
      /\ reqs[i].kind = "delete" /\ reqs[i].pc = "pending"
      /\ \E ok \in BOOLEAN :
           IF ok
             THEN /\ blog_posts' = blog_posts \ RowsOfPost(reqs[i].id)
                  /\ reqs' = [reqs EXCEPT ![i].pc = "ok"]
             ELSE /\ reqs' = [reqs EXCEPT ![i].pc = "err"]
                  /\ UNCHANGED blog_posts
      /\ UNCHANGED <<hook, form, stats, nonForm>>

\* loadBlogPosts after the await: setBlogPosts(posts), or setError and
\* setBlogPosts([]); finally setLoading(false)
UseBlogPosts_loadBlogPostsSettled ==
    \E i \in DOMAIN reqs :
      /\ reqs[i].kind = "select" /\ reqs[i].pc # "pending" /\ ~reqs[i].settled
      /\ hook' = IF reqs[i].pc = "ok"
                   THEN [hook EXCEPT !.blogPosts = reqs[i].result,
                                     !.loading = FALSE]
                   ELSE [blogPosts |-> <<>>, loading |-> FALSE,
                         error |-> "Failed to fetch blog posts"]
      /\ reqs' = [reqs EXCEPT ![i].settled = TRUE]
      /\ UNCHANGED <<blog_posts, form, stats, nonForm>>

\* deleteBlogPost after the await:
\* setBlogPosts(prev => prev.filter(post => post.id !== id)), or setError
UseBlogPosts_deleteBlogPostSettled ==
    \E i \in DOMAIN reqs :
      /\ reqs[i].kind = "delete" /\ reqs[i].pc # "pending" /\ ~reqs[i].settled
      /\ hook' = IF reqs[i].pc = "ok"
                   THEN [hook EXCEPT !.blogPosts =
                           SelectSeq(hook.blogPosts, LAMBDA post : post.id # reqs[i].id)]
                   ELSE [hook EXCEPT !.error = "Failed to delete blog post"]
      /\ reqs' = [reqs EXCEPT ![i].settled = TRUE]
      /\ UNCHANGED <<blog_posts, form, stats, nonForm>>

\* PostList as mounted: the effect of its useBlogPosts has called
\* loadBlogPosts
InitPostList ==
    /\ blog_posts = {SamplePost, SecondPost}
    /\ hook = FreshHook
    /\ form = FreshForm("admin")
    /\ reqs = <<Call("select", "")>>
    /\ stats = [submits |-> 0, inserts |-> 0, updates |-> 0, clock |-> 0]
    /\ ImageAtRest
    /\ MapperAtRest
    /\ ViewAtRest
    /\ EmbedAtRest
    /\ SelAtRest
    /\ AuthAtRest

NextPostList ==
    \/ PostList_refreshPosts
    \/ PostList_handleDelete
    \/ BlogService_getAllPosts
    \/ BlogService_deletePost
    \/ UseBlogPosts_loadBlogPostsSettled
    \/ UseBlogPosts_deleteBlogPostSettled

SpecPostList == InitPostList /\ [][NextPostList]_vars

(***************************************************************************)
(* The pages: Gallery with its PhotoCard, and BlogPost, with useBlogPosts, *)
(* useImageMetadata and useImageMetadataMap                                *)
(***************************************************************************)
SupabaseComUrl == <<"https://", "supabase", ".co", "m", "/img", "/storage/", "b.jpg">>

NoStorageUrl == <<"https://">> \o StorageHost \o <<"/img", "c.jpg">>

MainUrls == {UploadedUrl, FlickrUrl, OtherUrl, SupabaseComUrl, NoStorageUrl, <<"a">>}

ImageLists == {<<>>, <<UploadedUrl>>, <<FlickrUrl, OtherUrl>>, <<UploadedUrl, FlickrUrl>>}

UploadedRow(photographer) ==
    [id |-> Uuid("h12_1"),
     storage_path |-> UploadedPath,
     public_url |-> UploadedUrl,
     photographer |-> photographer]

\* the ImageMetadata the service builds from a row
ImageMetadataOf(item) ==
    [id |-> item.id, publicUrl |-> item.public_url, photographer |-> item.photographer]

NoIndex == -1

FreshSingle == [pc |-> "idle", ranFor |-> Null, metadata |-> {}]

FreshMulti == [pc |-> "idle", ranFor |-> <<>>, requested |-> <<>>, metadataMap |-> {}]

FreshView(page) ==
    [page |-> page, id |-> "p0", blogPosts |-> <<>>, loading |-> TRUE,
     single |-> FreshSingle, multi |-> FreshMulti,
     selectedImageIndex |-> NoIndex, asked |-> {}]

Shown == view.page # "none"

\* the route / or /post/p0 is entered: the page mounts and its useBlogPosts
\* starts loadBlogPosts
Page_mount ==
    /\ ~Shown
    /\ \E page \in {"gallery", "post"} : view' = FreshView(page)
    /\ UNCHANGED <<blog_images, gal, nonView>>

Page_unmount ==
    /\ Shown
    /\ view' = [page |-> "none"]
    /\ UNCHANGED <<blog_images, gal, nonView>>

\* loadBlogPosts of the page's useBlogPosts, after the await
Page_loadSettled ==
    /\ Shown
    /\ view.loading
    /\ \E ok \in BOOLEAN :
         view' = [view EXCEPT !.loading = FALSE,
                              !.blogPosts = IF ok THEN MapRows(NewestFirst(blog_posts))
                                                  ELSE <<>>]
    /\ UNCHANGED <<blog_images, gal, nonView>>

\* BlogPost: post = getBlogPost(id); Gallery: the post of the first card
ShownPost ==
    IF view.page = "post"
      THEN {view.blogPosts[i] : i \in {j \in DOMAIN view.blogPosts :
                                         view.blogPosts[j].id = view.id}}
      ELSE {view.blogPosts[i] : i \in DOMAIN view.blogPosts \cap {1}}

\* the argument of useImageMetadata: post?.imageUrl || null in BlogPost,
\* post.imageUrl in PhotoCard
SingleArg ==
    IF ShownPost = {} THEN Null
    ELSE LET post == CHOOSE q \in ShownPost : TRUE
         IN  IF post.imageUrl = <<>> THEN Null ELSE post.imageUrl

\* the argument of useImageMetadataMap in BlogPost
MultiArg ==
    IF view.page = "post" /\ ShownPost # {}
      THEN ImagesOf(CHOOSE q \in ShownPost : TRUE)
      ELSE <<>>

Range(s) == {s[i] : i \in DOMAIN s}

\* the effect of useImageMetadata, run when imageUrl changed
UseImageMetadata_effect ==
    /\ Shown
    /\ SingleArg # view.single.ranFor
    /\ view' = IF SingleArg = Null \/ ~isSupabaseStorageUrl(SingleArg)
                 THEN [view EXCEPT !.single = [pc |-> "idle", ranFor |-> SingleArg,
                                               metadata |-> {}]]
                 ELSE [view EXCEPT !.single = [pc |-> "pending", ranFor |-> SingleArg,
                                               metadata |-> view.single.metadata],
                                   !.asked = @ \cup {SingleArg}]
    /\ UNCHANGED <<blog_images, gal, nonView>>

\* getImageMetadataByUrl(publicUrl): the one row with that public_url, null
\* when there is none or the query fails; then setMetadata
UseImageMetadata_settled ==
    /\ Shown
    /\ view.single.pc = "pending"
    /\ \E ok \in BOOLEAN :
         LET rows == {r \in blog_images : r.public_url = view.single.ranFor}
         IN  view' = [view EXCEPT
                        !.single.pc = "done",
                        !.single.metadata =
                            IF ok /\ Cardinality(rows) = 1
                              THEN {ImageMetadataOf(r) : r \in rows}
                              ELSE {}]
    /\ UNCHANGED <<blog_images, gal, nonView>>

\* the effect of useImageMetadataMap, run when imageUrls.join(',') changed
UseImageMetadataMap_effect ==
    /\ Shown
    /\ MultiArg # view.multi.ranFor
    /\ LET supabaseUrls == SelectSeq(MultiArg, isSupabaseStorageUrl)
       IN  view' = IF Len(MultiArg) = 0 \/ Len(supabaseUrls) = 0
                     THEN [view EXCEPT !.multi = [pc |-> "idle", ranFor |-> MultiArg,
                                                  requested |-> <<>>,
                                                  metadataMap |-> {}]]
                     ELSE [view EXCEPT !.multi = [pc |-> "pending", ranFor |-> MultiArg,
                                                  requested |-> supabaseUrls,
                                                  metadataMap |-> view.multi.metadataMap],
                                       !.asked = @ \cup Range(supabaseUrls)]
    /\ UNCHANGED <<blog_images, gal, nonView>>

\* getImageMetadataByUrls(publicUrls): a Map from public_url to the
\* metadata of the rows found, empty when the query fails; then setMetadataMap
UseImageMetadataMap_settled ==
    /\ Shown
    /\ view.multi.pc = "pending"
    /\ \E ok \in BOOLEAN :
         LET data == {r \in blog_images : r.public_url \in Range(view.multi.requested)}
         IN  view' = [view EXCEPT
                        !.multi.pc = "done",
                        !.multi.metadataMap =
                            IF ok THEN {[key |-> item.public_url,
                                         value |-> ImageMetadataOf(item)] : item \in data}
                                  ELSE {}]
    /\ UNCHANGED <<blog_images, gal, nonView>>

\* openLightbox(index), by a click on an image of the grid
BlogPost_openLightbox ==
    /\ view.page = "post"
    /\ ShownPost # {}
    /\ view.selectedImageIndex = NoIndex
    /\ \E index \in 0..(Len(MultiArg) - 1) :
         view' = [view EXCEPT !.selectedImageIndex = index]
    /\ UNCHANGED <<blog_images, gal, nonView>>

BlogPost_closeLightbox ==
    /\ view.page = "post"
    /\ view.selectedImageIndex # NoIndex
    /\ view' = [view EXCEPT !.selectedImageIndex = NoIndex]
    /\ UNCHANGED <<blog_images, gal, nonView>>

\* a variant that steps without wrapping around
navigateImage_noWrap(index, totalImages, direction) ==
    IF index = NoIndex THEN index
    ELSE IF direction = "prev" THEN index - 1 ELSE index + 1

\* navigateImage(direction): the index it sets from selectedImageIndex and
\* images.length; nothing is set while selectedImageIndex is null
navigateImage(index, totalImages, direction) ==
    IF index = NoIndex THEN index
    ELSE IF direction = "prev"
      THEN (IF index = 0 THEN totalImages - 1 ELSE index - 1)
      ELSE (IF index = totalImages - 1 THEN 0 ELSE index + 1)

\* navigateImage(direction) by the arrow keys or the two buttons of the open
\* lightbox
BlogPost_navigateImage ==
    /\ view.page = "post"
    /\ view.selectedImageIndex # NoIndex
    /\ \E direction \in {"prev", "next"} :
         view' = [view EXCEPT !.selectedImageIndex =
                    navigateImage(view.selectedImageIndex, Len(MultiArg), direction)]
    /\ UNCHANGED <<blog_images, gal, nonView>>

\* handleUpdateMetadata(id, metadata) of the admin gallery, with the
\* photographer the edit form holds: updateImageMetadata updates the row, or
\* the error is shown
ImageGallery_handleUpdateMetadata ==
    /\ gal.error = ""
    /\ \E id \in gal.images, photographer \in Photographers \cup {DefaultPhotographer},
          ok \in BOOLEAN :
         IF ok
           THEN /\ blog_images' = {IF r.id = id THEN [r EXCEPT !.photographer = photographer]
                                                ELSE r : r \in blog_images}
                /\ UNCHANGED gal
           ELSE /\ gal' = [gal EXCEPT !.error = "Failed to update metadata"]
                /\ UNCHANGED blog_images
    /\ UNCHANGED <<view, nonView>>

\* the post a page is opened on
ViewPost(main, images) ==
    [id |-> "p0", title |-> <<"a">>, category |-> "hiking", image_url |-> main,
     images |-> images, excerpt |-> <<"a">>, content |-> <<"a">>,
     read_time |-> <<1, " min read">>, image_metadata |-> NoMetadata,
     created_at |-> Timestamp(0), updated_at |-> Timestamp(0)]

\* one post, and one image uploaded earlier
InitView ==
    /\ \E main \in MainUrls, images \in ImageLists :
         blog_posts = {ViewPost(main, images)}
    /\ storage = {UploadedPath}
    /\ \E photographer \in {"Ansel", DefaultPhotographer} :
         blog_images = {UploadedRow(photographer)}
    /\ up = IdleUp(1)
    /\ calls = [c \in Callers |-> IdleCall]
    /\ iu = IdleIu(ManagerFolder)
    /\ gal = [images |-> {}, error |-> ""]
    /\ PostFormAtRest
    /\ MapperAtRest
    /\ ViewAtRest
    /\ EmbedAtRest
    /\ SelAtRest
    /\ AuthAtRest

NextView ==
    \/ Page_mount
    \/ Page_unmount
    \/ Page_loadSettled
    \/ UseImageMetadata_effect
    \/ UseImageMetadata_settled
    \/ UseImageMetadataMap_effect
    \/ UseImageMetadataMap_settled
    \/ BlogPost_openLightbox
    \/ BlogPost_closeLightbox
    \/ BlogPost_navigateImage
    \/ ImageGallery_loadImages
    \/ ImageGallery_handleUpdateMetadata

SpecView == InitView /\ [][NextView]_vars

(***************************************************************************)
(* The image service and its two components                                *)
(***************************************************************************)
InitImage ==
    /\ ImageAtRest
    /\ FormAtRest
    /\ MapperAtRest
    /\ ViewAtRest
    /\ EmbedAtRest
    /\ SelAtRest
    /\ AuthAtRest

NextImage ==
    \/ ImageUpload_handleFiles
    \/ ImageUpload_setPhotographer
    \/ ImageUpload_handleCancel
    \/ ImageUpload_handleUpload
    \/ UploadImage_prepare
    \/ UploadImage_storageUpload
    \/ UploadImage_getImageDimensions
    \/ UploadImage_insert
    \/ UploadImage_afterCleanup
    \/ ImageUpload_uploadSettled
    \/ ImageGallery_loadImages
    \/ ImageGallery_handleDeleteImage
    \/ ImageGallery_deleteSettled
    \/ \E c \in Callers : DeleteImage_select(c)
    \/ \E c \in Callers : DeleteImage_deleteRecord(c)
    \/ \E c \in Callers : DeleteImage_remove(c)

SpecImage == InitImage /\ [][NextImage]_vars

(***************************************************************************)
(* Claims about the image service                                          *)
(***************************************************************************)
InsertFailedAt(i) == up.log[i].op = "blog_images.insert" /\ ~up.log[i].ok

RemoveIssuedAt(j) == up.log[j].op = "storage.remove" /\ up.log[j].target = up.path

RowsWithPath(path) == {r \in blog_images : r.storage_path = path}

\* C1: when uploadImage reports a failure after the storage upload succeeded
\* and the insert into blog_images failed, a delete of the uploaded object
\* (the same storage path) was issued after the insert and before the failure
\* is reported; when that delete succeeded the object is gone from storage and
\* no uploaded object is left without a record.
C1_CleanupIssuedBeforeFailure ==
    up.pc = "threw" =>
      \A i \in DOMAIN up.log :
        InsertFailedAt(i) =>
          \E j \in DOMAIN up.log :
            /\ j > i
            /\ RemoveIssuedAt(j)
            /\ up.log[j].ok => (up.path \notin storage /\ RowsWithPath(up.path) = {})

C1_Witness ==
    /\ up.pc = "threw"
    /\ \E i \in DOMAIN up.log : InsertFailedAt(i)
    /\ \E j \in DOMAIN up.log : RemoveIssuedAt(j) /\ up.log[j].ok
    /\ up.path \notin storage

\* C2: when the insert failed and the compensating delete failed too, the
\* error uploadImage reports is still the metadata-save failure, never the
\* storage-deletion failure.
C2_ReportsMetadataFailure ==
    (up.pc = "threw" /\ \E i \in DOMAIN up.log : InsertFailedAt(i)) =>
      up.err = "Metadata save failed"

\* C3: deleteImage(id) issues the storage delete only after the record delete
\* succeeded; when the lookup or the record delete fails, neither the record
\* nor the object is removed; and when it returns, both are gone.
C3_RecordThenObject ==
    \A c \in Callers :
      LET f == calls[c] IN
      LooksLikeUuid(f.arg) =>
        /\ \A j \in DOMAIN f.log :
             f.log[j].op = "storage.remove" =>
               \E i \in 1..(j - 1) : f.log[i].op = "blog_images.delete" /\ f.log[i].ok
        /\ (f.pc = "threw" /\ f.err \in {"Image not found", "Database deletion failed"}) =>
             /\ \A j \in DOMAIN f.log :
                  /\ f.log[j].op # "storage.remove"
                  /\ f.log[j].op = "blog_images.delete" => ~f.log[j].ok
             /\ f.err = "Database deletion failed" =>
                  /\ \E r \in RowsWithId(f.arg) : r.storage_path = f.storagePath
                  /\ f.storagePath \in storage
        /\ f.pc = "returned" =>
             /\ RowsWithId(f.arg) = {}
             /\ f.storagePath \notin storage

C3_Witness ==
    /\ calls["gallery"].pc = "returned"
    /\ LooksLikeUuid(calls["gallery"].arg)
    /\ Len(calls["gallery"].log) = 3

\* the files validateImageFile is meant to reject: neither an accepted MIME
\* type nor an accepted extension, or larger than 50 MB
Rejected(file) ==
    \/ file.type \notin allowedTypes /\ ~hasValidExtension(file)
    \/ file.size > maxSize

\* the files the claim C6 as written says are rejected
RejectedByMime(file) ==
    \/ file.type \notin allowedTypes
    \/ file.size > maxSize

ShownError(file) ==
    IF file.type \notin allowedTypes /\ ~hasValidExtension(file) THEN InvalidType
                                                                 ELSE TooLarge

HasText(value) == \E i \in DOMAIN value : value[i] # " "

RequiredMessages ==
    {"Title is required", "Excerpt is required", "Content is required",
     "Main image URL is required"}

\* C4: a submit with a title, excerpt, content or main image URL that is empty
\* or only blanks sets one of the "... is required" save errors and issues no
\* create or update call; a submit that is accepted has all four; and so every
\* call in flight and every row of blog_posts has a title, an excerpt, a
\* content and an image URL that are not blank.
C4_BlankFieldRejected ==
    /\ form.lastSubmit = "rejected" =>
         /\ \E name \in {"title", "excerpt", "content", "imageUrl"} :
              ~HasText(form.formData[name])
         /\ form.saveError \in RequiredMessages
         /\ ~form.isSaving
         /\ reqs = <<>>
    /\ form.lastSubmit = "accepted" =>
         \A name \in {"title", "excerpt", "content", "imageUrl"} :
           HasText(form.formData[name])
    /\ \A i \in DOMAIN reqs :
         \A column \in {"title", "excerpt", "content", "image_url"} :
           HasText(reqs[i].dbData[column])
    /\ \A row \in blog_posts :
         \A column \in {"title", "excerpt", "content", "image_url"} :
           HasText(row[column])

C4_Witness ==
    /\ form.lastSubmit = "rejected"
    /\ form.formData.title = <<" ">>
    /\ form.saveError = "Title is required"
    /\ stats.submits > 0

ServerAssigned == {"id", "read_time", "created_at", "updated_at"}

SavedName(x, url) == PhotographerOf(AttributionOf(x, url))

\* C7: for every image URL of a post that passes the embed-host test, the
\* photographer displayed in the hero, the grid, the lightbox and the gallery
\* card is the one the post was saved with under that URL when it has a
\* name, and "Flickr User" otherwise -- for a post saved through createPost
\* and read back.
C7_EmbedAttribution ==
    mp.pc = "read" =>
      LET post == mp.out
          images == ImagesOf(post)
      IN  \A i \in DOMAIN images :
            isFlickrImageUrl(images[i]) =>
              LET expected == OrElse(SavedName(mp.x, images[i]), UnattributedEmbed)
              IN  /\ gridPhotographer(post, images[i], {}) = expected
                  /\ lightboxPhotographer(post, images[i], {}) = expected
                  /\ images[i] = post.imageUrl =>
                       /\ mainImagePhotographer(post, {}) = expected
                       /\ cardPhotographer(post, {}) = expected

\* C10: a form mapped by mapAppToDatabase, inserted, and mapped back by
\* mapDatabaseToApp has every field of the form (none of which is
\* server-assigned) with its value.
C10_RoundTripKeepsForm ==
    mp.pc = "read" =>
      \A field \in DOMAIN mp.x :
        /\ field \in DOMAIN mp.out
        /\ mp.out[field] = mp.x[field]

\* the name a place shows for the metadata it holds, when a stored
\* photographer that is empty counts as none
StoredOrDefault(held) == OrElse(PhotographerOf(held), DefaultPhotographer)

\* the name a place shows for the metadata it holds, when any stored
\* photographer is shown as it is
StoredAsIs(held) == IF held = {} THEN DefaultPhotographer ELSE PhotographerOf(held)

Expected(held, asIs) == IF asIs THEN StoredAsIs(held) ELSE StoredOrDefault(held)

\* every place that attributes an image that is not an embed shows
\* the name expected for the metadata the place holds for that URL: the hero and the card
\* hold the result of the single lookup, the grid and the lightbox the
\* entry of finalMetadataMap; and an entry is held under its own public URL
NonEmbedResolvesTo(asIs) ==
    /\ (view.page = "post" /\ ShownPost # {}) =>
         LET post == CHOOSE q \in ShownPost : TRUE
             final == finalMetadataMap(post, view.multi.metadataMap, view.single.metadata)
             images == ImagesOf(post)
         IN  /\ ~isFlickrImageUrl(post.imageUrl) =>
                  mainImagePhotographer(post, view.single.metadata)
                    = Expected(view.single.metadata, asIs)
             /\ \A i \in DOMAIN images :
                  ~isFlickrImageUrl(images[i]) =>
                    gridPhotographer(post, images[i], final)
                      = Expected(MapGet(final, images[i]), asIs)
             /\ view.selectedImageIndex # NoIndex =>
                  LET currentImage == images[view.selectedImageIndex + 1]
                  IN  ~isFlickrImageUrl(currentImage) =>
                        lightboxPhotographer(post, currentImage, final)
                          = Expected(MapGet(final, currentImage), asIs)
             /\ \A e \in final : e.value.publicUrl = e.key
    /\ (view.page = "gallery" /\ ShownPost # {}) =>
         LET post == CHOOSE q \in ShownPost : TRUE
         IN  ~isFlickrImageUrl(post.imageUrl) =>
               cardPhotographer(post, view.single.metadata)
                 = Expected(view.single.metadata, asIs)

HostMatchesStorage(url) ==
    /\ ParseUrl(url).ok
    /\ Includes(ParseUrl(url).hostname, <<"supabase", ".co">>)

\* C9: every URL handed to a metadata lookup has a host that matches the
\* storage host pattern: useImageMetadata has no request for another URL,
\* useImageMetadataMap requests only URLs of its list that match, and none
\* at all when no URL of the list matches.
C9_LookupsOnlyForStorageHost ==
    Shown =>
      /\ \A url \in view.asked : HostMatchesStorage(url)
      /\ view.single.pc # "idle" => HostMatchesStorage(view.single.ranFor)
      /\ view.multi.pc # "idle" =>
           /\ view.multi.requested # <<>>
           /\ \A url \in Range(view.multi.requested) :
                HostMatchesStorage(url) /\ url \in Range(view.multi.ranFor)
      /\ (\A url \in Range(view.multi.ranFor) : ~HostMatchesStorage(url)) =>
           view.multi.pc = "idle" /\ view.multi.requested = <<>>

C9_Witness ==
    /\ view.page = "post"
    /\ view.single.ranFor = OtherUrl
    /\ view.single.pc = "idle"
    /\ view.multi.ranFor = <<UploadedUrl, FlickrUrl, OtherUrl>>
    /\ view.multi.pc = "done"
    /\ view.asked = {UploadedUrl}

(***************************************************************************)
(* Claims about reading a stored post                                      *)
(***************************************************************************)
\* C11: the post mapDatabaseToApp returns has the stored row's attribution
\* map as its imageMetadata (the empty map when the row has none), the
\* row's images or the empty list when the row has none, and the row's
\* read_time as its readTime.
C11_CopiesAttributionMap ==
    mp.pc = "returned" =>
      /\ "imageMetadata" \in DOMAIN mp.out
      /\ mp.out.imageMetadata = mp.data.image_metadata
      /\ mp.out.images = (IF mp.data.images = Null THEN <<>> ELSE mp.data.images)
      /\ mp.out.readTime = mp.data.read_time

(***************************************************************************)
(* Claims about the embed parser and FlickrImageInput. fi.parsedData is    *)
(* parseFlickrEmbed(fi.embedCode) after every handleEmbedChange; the       *)
(* structure of the pasted text is stated here without the parser.         *)
(***************************************************************************)
MarkedAnchors(s) == {i \in DOMAIN s : s[i].tag = "a" /\ s[i].embed = <<"true">>}

Images(s) == {i \in DOMAIN s : s[i].tag = "img"}

First(S) == CHOOSE i \in S : \A j \in S : i <= j

Present(a) == a # Null /\ a # <<>>

Attr(a) == IF a = Null THEN <<>> ELSE a

Link == fi.embedCode[First(MarkedAnchors(fi.embedCode))]

Image == fi.embedCode[First(Images(fi.embedCode))]

LinkTarget == Attr(Link.href)

Parsed == CHOOSE r \in fi.parsedData : TRUE

HasAnchorAndImage == MarkedAnchors(fi.embedCode) # {} /\ Images(fi.embedCode) # {}

\* "/photos/" at i, a non-empty segment without a slash, "/" at j, a digit
PhotoPatternAt(href, i, j) ==
    /\ href[i] = "/photos/"
    /\ i + 1 < j
    /\ j < Len(href)
    /\ \A k \in (i + 1)..(j - 1) : href[k] \notin Slashy
    /\ href[j] = "/"
    /\ href[j + 1] \in Digits

MatchesPhotoPattern(href) ==
    \E i \in DOMAIN href, j \in DOMAIN href : PhotoPatternAt(href, i, j)

\* the digits of text from k up to the first character that is not a digit
DigitRun(text, k) ==
    SubSeq(text, k, CHOOSE e \in k..Len(text) :
                      /\ \A m \in k..e : text[m] \in Digits
                      /\ e = Len(text) \/ text[e + 1] \notin Digits)

AlbumAt(href, i) == href[i] = "/album-" /\ i < Len(href) /\ href[i + 1] \in Digits

\* C12: a pasted text without a provenance-marked anchor, without an image
\* element, or whose anchor's link target does not match
\* /photos/<accountId>/<numericPhotoId> parses to null, and the handler goes
\* on to show the invalid-embed message (nothing was thrown)
C12_NullWithoutStructure ==
    (\/ ~HasAnchorAndImage
     \/ ~MatchesPhotoPattern(LinkTarget))
      => /\ fi.parsedData = {}
         /\ ~fi.showPreview
         /\ ~Blank(fi.embedCode) => fi.error = "Invalid Flickr embed code"

C12_Witness ==
    /\ HasAnchorAndImage
    /\ \E i \in DOMAIN LinkTarget : LinkTarget[i] = "/photos/"
    /\ ~MatchesPhotoPattern(LinkTarget)
    /\ fi.parsedData = {}
    /\ fi.error = "Invalid Flickr embed code"

\* C13: a pasted text with a provenance-marked anchor, an image element and
\* a link target containing /photos/<accountId>/<numericPhotoId> parses to a
\* result whose userId is the whole account segment of the leftmost match,
\* whose photoId is all the digits that follow it, whose embedUrl and
\* flickrPageUrl are the link target and whose imageUrl is the image's src
C13_IdsAreThePathSegments ==
    (HasAnchorAndImage /\ MatchesPhotoPattern(LinkTarget))
      => /\ fi.parsedData # {}
         /\ \E i \in DOMAIN LinkTarget, j \in DOMAIN LinkTarget :
              /\ PhotoPatternAt(LinkTarget, i, j)
              /\ \A i2 \in DOMAIN LinkTarget, j2 \in DOMAIN LinkTarget :
                   PhotoPatternAt(LinkTarget, i2, j2) => i <= i2
              /\ Parsed.userId = SubSeq(LinkTarget, i + 1, j - 1)
              /\ Parsed.photoId = DigitRun(LinkTarget, j + 1)
         /\ Parsed.embedUrl = LinkTarget
         /\ Parsed.flickrPageUrl = LinkTarget
         /\ Parsed.imageUrl = Attr(Image.src)

C13_Witness ==
    /\ HasAnchorAndImage
    /\ fi.parsedData # {}
    /\ Parsed.userId = <<"N">>
    /\ Parsed.photoId = <<"1", "2">>
    /\ Parsed.embedUrl = PhotoHref
    /\ Parsed.imageUrl = ImgSrc

\* C14: in a result, albumId is the digits of the leftmost /album-<digits>
\* of the link target, and is omitted when the link target has none; a link
\* target without an album still parses
C14_AlbumIdIsOptional ==
    /\ fi.parsedData # {} =>
         LET albums == {i \in DOMAIN LinkTarget : AlbumAt(LinkTarget, i)}
         IN  Parsed.albumId = IF albums = {} THEN {}
                              ELSE {DigitRun(LinkTarget, First(albums) + 1)}
    /\ (/\ HasAnchorAndImage
        /\ MatchesPhotoPattern(LinkTarget)
        /\ \A i \in DOMAIN LinkTarget : ~AlbumAt(LinkTarget, i))
         => fi.parsedData # {} /\ Parsed.albumId = {}

C14_Witness ==
    /\ fi.parsedData # {}
    /\ \E i \in DOMAIN LinkTarget : AlbumAt(LinkTarget, i)
    /\ Parsed.albumId = {<<"7">>}

\* C15: in a result, width and height are 0 whenever the image's attribute
\* is missing or has no digit in it, and the integer the attribute starts
\* with otherwise; a missing dimension does not make the parse fail
C15_DimensionsDefaultToZero ==
    /\ fi.parsedData # {} =>
         /\ (Image.width = Null \/ \A i \in DOMAIN Image.width : Image.width[i] \notin Digits)
              => Parsed.width = [nan |-> FALSE, value |-> 0]
         /\ (Image.height = Null \/ \A i \in DOMAIN Image.height : Image.height[i] \notin Digits)
              => Parsed.height = [nan |-> FALSE, value |-> 0]
         /\ ~Parsed.width.nan
         /\ ~Parsed.height.nan
    /\ (HasAnchorAndImage /\ MatchesPhotoPattern(LinkTarget)) => fi.parsedData # {}

\* C16: in a result, title is the anchor's title attribute when it has one
\* that is not empty, else the image's alt attribute when it has one that is
\* not empty, else the empty string; alt is the image's alt attribute when
\* it has one that is not empty, else that title
C16_TitleAndAltFallBack ==
    fi.parsedData # {} =>
      /\ Parsed.title = IF Present(Link.title) THEN Link.title
                        ELSE IF Present(Image.alt) THEN Image.alt
                        ELSE <<>>
      /\ Parsed.alt = IF Present(Image.alt) THEN Image.alt ELSE Parsed.title

C16_Witness ==
    /\ fi.parsedData # {}
    /\ ~Present(Link.title)
    /\ Present(Image.alt)
    /\ Parsed.title = Image.alt

\* C17: onImageSelect is only ever called with an entered photographer name
\* that is not blank, and the metadata it is passed carries that name
\* trimmed; what the parser returns has an empty photographer
C17_NameEnteredBeforeUse ==
    /\ \A call \in fi.selected :
         /\ Trim(call.entered) # <<>>
         /\ call.metadata.photographer = Trim(call.entered)
    /\ \A r \in fi.parsedData : r.photographer = <<>>

C17_Witness ==
    \E call \in fi.selected :
      /\ call.entered = <<" ", "J", " ">>
      /\ call.metadata.photographer = <<"J">>

(***************************************************************************)
(* Claims about the reading-time label                                     *)
(***************************************************************************)
Whitespace == {" ", "\n"}

\* the words of a text: the runs of characters that are not white space
WordCount(text) ==
    Cardinality({i \in DOMAIN text :
                   text[i] \notin Whitespace /\ (i = 1 \/ text[i - 1] \in Whitespace)})

Minutes(wordCount) ==
    LET ceil == (wordCount + 199) \div 200 IN IF ceil > 1 THEN ceil ELSE 1

\* C18: after every insert and update, the row written holds the label
\* "<N> min read" with N = max(1, ceil(wordCount / 200)) for the number of
\* words of its body, whatever read_time the payload carried
C18_LabelFromWordCount ==
    mp.pc \in {"inserted", "updated"} =>
      \A row \in RowsOfPost(mp.id) :
        row.read_time = <<Minutes(WordCount(row.content)), " min read">>

(***************************************************************************)
(* Claims about getFlickrImageSizes and isFlickrImageUrl                   *)
(***************************************************************************)
Underscores(text) == {i \in DOMAIN text : text[i] = "_"}

\* text is <prefix>_<sizecode>.<ext>: after its last "_" come a size code,
\* one ".", and an extension, neither empty
SizedAt(text, k, d) ==
    /\ k \in Underscores(text)
    /\ \A j \in Underscores(text) : j <= k
    /\ k + 1 < d
    /\ d < Len(text)
    /\ text[d] = "."
    /\ \A i \in (k + 1)..Len(text) : i # d => text[i] # "."

\* C19: for a URL <prefix>_<sizecode>.<ext>, every named size is the URL
\* with the size code after its last "_" replaced (t, m, z, b, 6k, h) and
\* the prefix and the extension kept; for a URL without "_" the result is
\* the original size alone, equal to the URL
C19_OnlySizeCodeReplaced ==
    \A sizes \in mp.sizes :
      /\ \A k \in DOMAIN mp.url, d \in DOMAIN mp.url :
           SizedAt(mp.url, k, d) =>
             sizes = {[name |-> sz.name,
                       url |-> SubSeq(mp.url, 1, k) \o <<sz.code>>
                                 \o SubSeq(mp.url, d, Len(mp.url))] : sz \in SizeCodes}
      /\ Underscores(mp.url) = {} => sizes = {[name |-> "original", url |-> mp.url]}

C19_Witness ==
    /\ mp.pc = "url"
    /\ mp.url = <<"https://", "live", ".", "static", "flickr.com", "/img",
                  "1", "_", "a", "_", "z", ".", "jpg">>
    /\ \E sizes \in mp.sizes :
         [name |-> "small",
          url |-> <<"https://", "live", ".", "static", "flickr.com", "/img",
                    "1", "_", "a", "_", "m", ".", "jpg">>] \in sizes

EndsWith(text, suffix) ==
    /\ Len(suffix) <= Len(text)
    /\ SubSeq(text, Len(text) - Len(suffix) + 1, Len(text)) = suffix

\* C20: isFlickrImageUrl is true exactly for the URLs that parse and whose
\* hostname is, or ends with, flickr.com or staticflickr.com
C20_HostnameSuffix ==
    \A flickr \in mp.flickr :
      flickr = (/\ ParseUrl(mp.url).ok
                /\ \/ EndsWith(ParseUrl(mp.url).hostname, <<"flickr.com">>)
                   \/ EndsWith(ParseUrl(mp.url).hostname, <<"static", "flickr.com">>))

(***************************************************************************)
(* Claims about the additional images of the post form                     *)
(***************************************************************************)
\* C21: the form never holds more than 10 additional images, and no insert
\* or update sent, nor any row written, carries more than 10
C21_AtMostTenImages ==
    /\ Len(form.formData.images) <= MaxImages
    /\ \A i \in DOMAIN reqs :
         /\ Len(reqs[i].postData.images) <= MaxImages
         /\ Len(reqs[i].dbData.images) <= MaxImages
    /\ \A row \in blog_posts : Len(row.images) <= MaxImages

C21_Witness ==
    /\ Len(form.formData.images) = MaxImages
    /\ ~AddEnabled
    /\ \E i \in DOMAIN form.formData.images : form.formData.images[i] = <<>>
    /\ \E i \in DOMAIN reqs : reqs[i].kind = "update" /\ Len(reqs[i].dbData.images) = MaxImages

(***************************************************************************)
(* Claims about AuthProvider                                               *)
(***************************************************************************)
\* C22: a backend failure of a user-initiated operation leaves an error for
\* the user to see, here for login and logout
C22_FailuresAreShown == auth.failed # "" => auth.error # ""

\* C25: isAuthenticated is true exactly when user is non-null, and once the
\* initial session and every reported change have been applied, the context
\* shows the session the auth service has
C25_ContextFollowsService ==
    /\ auth.isAuthenticated <=> auth.user # {}
    /\ (auth.init = "done" /\ auth.events = <<>> /\ auth.op = "none")
         => auth.user = auth.session


UploadedAt(j) == up.log[j].op = "storage.upload" /\ up.log[j].target = up.path

InsertAt(i) == up.log[i].op = "blog_images.insert"

\* C24: uploadImage makes its two backend calls in sequence: the insert into
\* blog_images is issued only after the storage upload of the prepared file
\* (a HEIC file converted to JPEG) succeeded; when the HEIC conversion fails
\* no storage upload is attempted; when the storage upload fails no insert is
\* attempted and no record of that path exists.
C24_UploadThenInsert ==
    /\ \A i \in DOMAIN up.log :
         InsertAt(i) => \E j \in 1..(i - 1) : UploadedAt(j) /\ up.log[j].ok
    /\ \A j \in DOMAIN up.log :
         UploadedAt(j) =>
           /\ isHeic(up.file) => up.processed.type = "image/jpeg"
           /\ ~isHeic(up.file) => up.processed = up.file
           /\ ~up.log[j].ok =>
                /\ \A i \in DOMAIN up.log : ~InsertAt(i)
                /\ RowsWithPath(up.path) = {}
                /\ up.pc = "threw" /\ up.err = "Upload failed"
    /\ (up.pc = "threw" /\ up.err = HeicUnsupported) =>
         /\ \A j \in DOMAIN up.log : up.log[j].op # "storage.upload"
         /\ \A i \in DOMAIN up.log : ~InsertAt(i)

C24_Witness ==
    /\ up.pc = "returned"
    /\ isHeic(up.file)
    /\ \E i \in DOMAIN up.log : InsertAt(i) /\ up.log[i].ok
    /\ RowsWithPath(up.path) # {}

\* C27: once uploadImage has failed after its storage upload succeeded, the
\* uploaded object is gone from storage or a delete of it was attempted.
C27_FailedUploadIsCleanedUp ==
    (up.pc = "threw" /\ \E j \in DOMAIN up.log : UploadedAt(j) /\ up.log[j].ok) =>
      \/ up.path \notin storage
      \/ \E j \in DOMAIN up.log : RemoveIssuedAt(j)


C28_ListedIffRecorded ==
    calls["gallery"].pc = "idle" =>
      \A id \in gal.images : \E r \in blog_images : r.id = id


\* C29: selectedImageIndex is null or an index of images; from the last image
\* "next" goes to 0, from the first "prev" goes to the last, "prev" after
\* "next" (and "next" after "prev") returns to the index it started from, and
\* navigating while the lightbox is closed leaves it closed.
C29_LightboxIndex ==
    LET totalImages == Len(MultiArg)
        index       == view.selectedImageIndex
    IN  Shown =>
          /\ index = NoIndex \/ index \in 0..(totalImages - 1)
          /\ index # NoIndex =>
               /\ navigateImage(totalImages - 1, totalImages, "next") = 0
               /\ navigateImage(0, totalImages, "prev") = totalImages - 1
               /\ navigateImage(navigateImage(index, totalImages, "next"),
                                totalImages, "prev") = index
               /\ navigateImage(navigateImage(index, totalImages, "prev"),
                                totalImages, "next") = index
          /\ \A direction \in {"prev", "next"} :
               navigateImage(NoIndex, totalImages, direction) = NoIndex

C29_Witness ==
    /\ view.page = "post"
    /\ Len(MultiArg) = 3
    /\ view.selectedImageIndex = 2

\* C30: the post page shows "Post not found" only when the load of the post
\* list has completed and the list holds no post with the route id; it is
\* never shown for a stored post while the first load is still in progress.
C30_NotFoundOnlyAfterLoad ==
    (view.page = "post" /\ ShownPost = {}) =>
      /\ ~view.loading
      /\ \A row \in blog_posts : row.id # view.id


\* C26: a stale list load never overwrites a later mutation: once every call
\* of the hook (loads, refreshes, deletes) has completed successfully, the
\* local blogPosts holds no deleted post; and after a failed delete the post
\* is still listed with the error set, until a later call clears it.
C26_NoStaleOverwrite ==
    (\A i \in DOMAIN reqs : reqs[i].pc = "ok" /\ reqs[i].settled) =>
      \A j \in DOMAIN hook.blogPosts : RowsOfPost(hook.blogPosts[j].id) # {}

====
